---- MODULE Spec2Model ----
(***************************************************************************)
(* Model of remote_multi_tmux.                                             *)
(*                                                                         *)
(*   server2/websocket_server.py  Program2Interface (the topic registry)   *)
(*                                and WebSocketRouter (the message router) *)
(*   server1/tmux_manager.py      TmuxSessionManager (the backend adapter) *)
(*                                                                         *)
(* Both services are single asyncio event loops: code between two await   *)
(* points runs atomically, and tasks interleave at the await points.  An   *)
(* action below is the code of one task from one suspension to the next.   *)
(*                                                                         *)
(* Spec         the router process (registry, client and backend handlers) *)
(* SpecAdapter  the adapter process (connection, sequence, monitors)       *)
(* SpecSessions the adapter's HTTP handlers and session table              *)
(* SpecMonitor  the output monitor of one session, with the text it reads  *)
(* SpecReconnect the same monitor, the connection lost and made again      *)
(* SpecSystem   both processes, for the registry and the session table     *)
(* SpecDelivery the router from the state with a first topic bound         *)
(* SpecCommands both processes, for commands from a client to a window     *)
(* SpecClock    the output monitor of one session, with the clock it reads *)
(*                                                                         *)
(* Environment assumptions: the file system works (os.makedirs and the     *)
(* aiofiles append of log_to_topic do not fail); uuid4 session ids are     *)
(* fresh; a websocket send on a connection that is not open raises.        *)
(***************************************************************************)
EXTENDS Integers, Sequences, FiniteSets, TLC

\* ---------------------------------------------------------------- bounds
MaxEvents == 3      \* inbound messages read by the router, plus connections lost
MaxSessions == 2    \* session ids the bootstrap endpoint hands out
MaxLosses == 1      \* adapter: losses of the connection to server-2
MaxEmitted == 2     \* adapter: stdout messages built
MaxAdapterSessions == 2  \* adapter: sessions created
MaxFile == 3        \* monitor: characters tmux writes to output.log
MaxPane == 3        \* monitor: characters of a captured pane
MaxTicks == 6       \* monitor: ticks of the clock (of 0.1 s) after the start

\* ------------------------------------------------------ program constants
max_retries == 5    \* connect_websocket
retry_delay == 2    \* connect_websocket
\* Times of the monitor loops, in ticks of 0.1 s.
min_send_interval == 2           \* monitor_session_output: 0.2
poll_sleep == 1                  \* monitor_session_output: asyncio.sleep(0.1)
fallback_min_send_interval == 3  \* _fallback_monitor_session_output: 0.3
fallback_poll_sleep == 3         \* _fallback_monitor_session_output: asyncio.sleep(0.3)

\* ------------------------------------------------------------- universes
Topics == {"t1", "t2"}
ClientOrder == <<"c1", "c2">>      \* client websocket objects, in accept order
BackendOrder == <<"b1", "b2">>     \* backend websocket objects, in accept order
Clients == {ClientOrder[i] : i \in 1..Len(ClientOrder)}
BackendConns == {BackendOrder[i] : i \in 1..Len(BackendOrder)}
Users == {"u1"}
Commands == {"echo hi"}
Chunks == {"hi"}

Absent == "-"          \* data.get(key) of a missing (or empty) field: None
NoSession == 0         \* topic_name not in self.topics
NoOwner == "none"      \* topic_name not in self.topic_owners
NoConn == "none"       \* self.server1_connection is None
SessionIds == 1..MaxSessions

VARIABLES
    \* --- router process (server2) ---
    topics,             \* Program2Interface.topics: topic -> session id
    topic_owners,       \* Program2Interface.topic_owners: topic -> client
    server1_connection, \* WebSocketRouter.server1_connection
    client_connections, \* WebSocketRouter.client_connections
    cstate,             \* each client websocket: new, open, closed, gone
    bstate,             \* each backend websocket: new, open, closed_err, closed_ok, gone
    ctask,              \* per client connection: position of handle_client_message
    btask,              \* per backend connection: position of handle_server1_message
    nextSid,            \* next fresh session id of the bootstrap endpoint
    log,                \* per topic: the lines of <topic>.log
    budget,             \* inbound messages and connection losses still to come
    recv,               \* the message read in the last step (NoRecv otherwise)
    sent,               \* the envelopes written to a websocket in the last step
    destroy_requested   \* the session ids of the session_destroy envelopes written

rvars == <<topics, topic_owners, server1_connection, client_connections, cstate,
           bstate, ctask, btask, nextSid, log, budget, recv, sent, destroy_requested>>

VARIABLES
    \* --- adapter process (server1) ---
    websocket,          \* TmuxSessionManager.websocket: none, or the state of the object
    sequence,           \* TmuxSessionManager.sequence
    sessions,           \* TmuxSessionManager.sessions (its keys)
    connecting,         \* the running call of connect_websocket
    listener,           \* position of the listen_for_messages task
    listeners,          \* listener tasks created so far
    monitor,            \* per session: position of its monitor_session_output task
    losses,             \* backend connections lost so far
    nextUuid,           \* next fresh uuid4 of create_session
    emitted,            \* the stdout messages built so far, in order
    command_timestamps  \* TmuxSessionManager.command_timestamps (its keys)

avars == <<websocket, sequence, sessions, connecting, listener, listeners, monitor,
           losses, nextUuid, emitted, command_timestamps>>

VARIABLES
    call                \* the create_session, destroy_session or
                        \* send_command_to_session call made in the last step
                        \* (NoCall otherwise)

VARIABLES
    \* --- the monitor task of the first session, in detail ---
    file,               \* content of /tmp/sessions/<id>/output.log (pipe-pane)
    pane,               \* what `tmux capture-pane -p` prints at present
    last_position,      \* monitor_session_output: last_position
    last_output,        \* _fallback_monitor_session_output: last_output
    chunk               \* the data last passed to send_output_to_server2

VARIABLES
    \* --- the same monitor task on the clock ---
    now,                \* time.time(), in ticks of 0.1 s
    current_time,       \* the monitor loops: current_time
    last_send_time,     \* the monitor loops: last_send_time
    wake_at,            \* the earliest return of the asyncio.sleep in progress
    emitted_at          \* the instants at which send_output_to_server2 was called

cvars == <<now, current_time, last_send_time, wake_at, emitted_at>>

VARIABLES
    \* --- the backend connection, router to adapter ---
    inbox,              \* the envelopes written by the router that the adapter's
                        \* listener has not read yet, oldest first
    asked,              \* the number of send_command requests the router has read
    typed               \* the commands passed to send-keys so far, in order

wvars == <<inbox, asked, typed>>

mvars == <<file, pane, last_position, last_output, chunk, cvars>>

\* ------------------------------------------------------------- messages
\* Client -> router envelopes (json.loads result and its data.get fields).
ClientMsg(type, topicName, userId, command) ==
    [type |-> type, topicName |-> topicName, userId |-> userId, command |-> command]

ClientMsgs ==
    {ClientMsg("create_topic", t, u, Absent) : t \in Topics \cup {Absent}, u \in Users \cup {Absent}}
    \cup {ClientMsg("stop_topic", t, Absent, Absent) : t \in Topics \cup {Absent}}
    \cup {ClientMsg("send_command", t, Absent, k) : t \in Topics \cup {Absent}, k \in Commands \cup {Absent}}
    \cup {ClientMsg("unknown_type", Absent, Absent, Absent),
          ClientMsg("invalid_json", Absent, Absent, Absent)}

\* Backend -> router envelopes.
BackendMsg(type, sessionId, data) ==
    [type |-> type, sessionId |-> sessionId, data |-> data]

BackendMsgs ==
    {BackendMsg("stdout", s, d) : s \in SessionIds \cup {NoSession}, d \in Chunks \cup {Absent}}
    \cup {BackendMsg(ty, s, Absent) : ty \in {"session_created", "session_destroyed"}, s \in SessionIds}
    \cup {BackendMsg("unknown_type", NoSession, Absent),
          BackendMsg("invalid_json", NoSession, Absent)}

NoRecv == [conn |-> "none", type |-> "none", topicName |-> Absent, userId |-> Absent,
           command |-> Absent, sessionId |-> NoSession, data |-> Absent]

RecvClient(c, m) ==
    [conn |-> c, type |-> m.type, topicName |-> m.topicName, userId |-> m.userId,
     command |-> m.command, sessionId |-> NoSession, data |-> Absent]

RecvBackend(b, m) ==
    [conn |-> b, type |-> m.type, topicName |-> Absent, userId |-> Absent,
     command |-> Absent, sessionId |-> m.sessionId, data |-> m.data]

\* An envelope written to websocket `to`.
Envelope(to, type, topicName, success, command, data, sessionId) ==
    [to |-> to, type |-> type, topicName |-> topicName, success |-> success,
     command |-> command, data |-> data, sessionId |-> sessionId]

\* A line of a topic log: "<timestamp> - <message>".
LogLine(kind, sessionId, text) == [kind |-> kind, sessionId |-> sessionId, text |-> text]

\* A client handler: pc, the request being handled, the local session_id, and
\* `bound`: the binding of the requested name when the operation was called.
IdleClient == [pc |-> "idle", msg |-> ClientMsg("none", Absent, Absent, Absent),
               sid |-> NoSession, bound |-> NoSession]
IdleBackend == [pc |-> "idle", topic |-> Absent, data |-> Absent, owner |-> NoOwner]

\* One subprocess.run of tmux: the subcommand, and whether it exited with 0.
Tmux(cmd, ok) == [cmd |-> cmd, ok |-> ok]

\* A call of create_session or destroy_session: what it returned, the status
\* its HTTP handler answers for that, and the tmux commands it ran.
Call(op, sid, result, status, tmux) ==
    [op |-> op, sid |-> sid, result |-> result, status |-> status, tmux |-> tmux]

NoCall == Call("none", 0, "none", 0, <<>>)

\* ------------------------------------------------------- router helpers
\* websocket.send(json.dumps(e)) on a client connection: the envelope is written
\* when the connection is open; on any other connection send raises.
SendClient(c, e) == IF cstate[c] = "open" THEN {e} ELSE {}

\* request_session_destruction / send_command_to_session: return at once when
\* no backend connection is recorded; otherwise send, and log a failing send.
SendBackend(type, sessionId, data) ==
    IF server1_connection = NoConn THEN {}
    ELSE IF bstate[server1_connection] = "open"
         THEN {Envelope(server1_connection, type, Absent, FALSE, Absent, data, sessionId)}
         ELSE {}

\* Mutant: the type of the create response does not depend on the result.
ResponseTypeFixed(m, success) ==
    CASE m.type = "create_topic" -> "topic_created"
      [] m.type = "stop_topic" -> "topic_stopped"
      [] m.type = "send_command" -> "command_sent"

\* The response envelope of handle_client_message for request m.
ResponseType(m, success) ==
    CASE m.type = "create_topic" -> IF success THEN "topic_created" ELSE "topic_create_failed"
      [] m.type = "stop_topic" -> "topic_stopped"
      [] m.type = "send_command" -> "command_sent"

Response(c, m, success) ==
    Envelope(c, ResponseType(m, success), m.topicName, success, m.command, Absent, NoSession)

\* The guard of each branch of handle_client_message (program2 is always set
\* by start_servers).
HasRequiredFields(m) ==
    CASE m.type = "create_topic" -> m.topicName # Absent /\ m.userId # Absent
      [] m.type = "stop_topic" -> m.topicName # Absent
      [] m.type = "send_command" -> m.topicName # Absent /\ m.command # Absent
      [] OTHER -> FALSE

\* Mutant: the `if not session_id` test is missing.
TopicFoundAlways(t) == TRUE

\* Mutant: an operation on a topic also fails when no backend is recorded.
TopicFoundAndConnected(t) == topics[t] # NoSession /\ server1_connection # NoConn

\* self.topics.get(topic_name) is truthy.
TopicFound(t) == topics[t] # NoSession

\* Mutant: the scan takes any bound topic (`if sid:` for `if sid == session_id:`).
TopicsOfSessionAnyBound(sessionId) == {t \in Topics : topics[t] # NoSession}

\* handle_session_output's scan of self.topics for session_id.  The scan takes
\* the first match in insertion order; every match is allowed here.
TopicsOfSession(sessionId) == {t \in Topics : topics[t] = sessionId}

\* Mutant: output is broadcast to every client connection.
OutputRecipientsBroadcast(t) == client_connections

\* send_output_to_owner: the connections the output envelope is sent to.
OutputRecipients(t) ==
    IF topic_owners[t] = NoOwner THEN {} ELSE {topic_owners[t]}

\* Websocket objects are named in the order the server accepts them.
NextAccepted(order, state, x) ==
    \E i \in 1..Len(order) :
        /\ order[i] = x
        /\ \A j \in 1..(i - 1) : state[order[j]] # "new"

Append1(t, line) == [log EXCEPT ![t] = Append(@, line)]

\* The client handler of c goes back to `async for message in websocket`.
Finish(c) == ctask' = [ctask EXCEPT ![c] = IdleClient]

\* ------------------------------------------------- client connections
\* handle_client_connection is entered for a new client websocket.
ClientConnect(c) ==
    /\ cstate[c] = "new"
    /\ NextAccepted(ClientOrder, cstate, c)
    /\ cstate' = [cstate EXCEPT ![c] = "open"]
    /\ client_connections' = client_connections \cup {c}
    /\ recv' = NoRecv /\ sent' = {}
    /\ UNCHANGED <<topics, topic_owners, server1_connection, bstate, ctask, btask,
                   nextSid, log, budget>>
    /\ UNCHANGED <<avars, mvars>> /\ call' = NoCall
    /\ UNCHANGED destroy_requested
    /\ UNCHANGED wvars

\* The peer (or the network) closes a client connection.
ClientClose(c) ==
    /\ cstate[c] = "open"
    /\ budget > 0
    /\ budget' = budget - 1
    /\ cstate' = [cstate EXCEPT ![c] = "closed"]
    /\ recv' = NoRecv /\ sent' = {}
    /\ UNCHANGED <<topics, topic_owners, server1_connection, client_connections, bstate,
                   ctask, btask, nextSid, log>>
    /\ UNCHANGED <<avars, mvars>> /\ call' = NoCall
    /\ UNCHANGED destroy_requested
    /\ UNCHANGED wvars

\* The read loop of a closed client connection ends: finally: discard.
ClientHandlerExit(c) ==
    /\ cstate[c] = "closed"
    /\ ctask[c].pc = "idle"
    /\ cstate' = [cstate EXCEPT ![c] = "gone"]
    /\ client_connections' = client_connections \ {c}
    /\ recv' = NoRecv /\ sent' = {}
    /\ UNCHANGED <<topics, topic_owners, server1_connection, bstate, ctask, btask,
                   nextSid, log, budget>>
    /\ UNCHANGED <<avars, mvars>> /\ call' = NoCall
    /\ UNCHANGED destroy_requested
    /\ UNCHANGED wvars

\* ------------------------------------------------ handle_client_message
\* Mutant: the `except json.JSONDecodeError` branch re-raises.
MessageHandlerCatchesNoJson(type) == type # "invalid_json"

\* handle_client_message / handle_server1_message: the body is inside try, with
\* `except json.JSONDecodeError` and `except Exception`, which only log.
MessageHandlerCatches(type) == TRUE

CanReceive(c) == cstate[c] = "open" /\ ctask[c].pc = "idle" /\ budget > 0

\* Invalid JSON, an unknown type, or a request lacking a required field: no
\* branch body runs and nothing is sent.  An exception that left the handler
\* would end the read loop of handle_client_connection.
ReceiveDropped(c, m) ==
    /\ CanReceive(c)
    /\ ~HasRequiredFields(m)
    /\ budget' = budget - 1
    /\ recv' = RecvClient(c, m) /\ sent' = {}
    /\ cstate' = IF MessageHandlerCatches(m.type) THEN cstate
                 ELSE [cstate EXCEPT ![c] = "closed"]
    /\ UNCHANGED <<topics, topic_owners, server1_connection, client_connections,
                   bstate, ctask, btask, nextSid, log>>
    /\ UNCHANGED <<avars, mvars>> /\ call' = NoCall
    /\ UNCHANGED destroy_requested
    /\ UNCHANGED wvars

\* Mutant: the owner is recorded before the session id is tested.
OwnersAfterCreateEager(t, sid, c) == [topic_owners EXCEPT ![t] = c]

\* create_topic: self.topic_owners[topic_name] = client_websocket is inside
\* `if session_id:` (the handler always passes its websocket).
OwnersAfterCreate(t, sid, c) ==
    IF sid # NoSession THEN [topic_owners EXCEPT ![t] = c] ELSE topic_owners

\* create_topic up to the HTTP request of request_session_creation; without a
\* recorded backend connection it returns None at once and the request fails.
ReceiveCreateTopic(c, m) ==
    /\ CanReceive(c)
    /\ m.type = "create_topic" /\ HasRequiredFields(m)
    /\ budget' = budget - 1
    /\ recv' = RecvClient(c, m)
    /\ IF server1_connection = NoConn
       THEN /\ sent' = SendClient(c, Response(c, m, FALSE))
            /\ topic_owners' = OwnersAfterCreate(m.topicName, NoSession, c)
            /\ UNCHANGED ctask
       ELSE /\ sent' = {}
            /\ ctask' = [ctask EXCEPT ![c] = [pc |-> "create_http", msg |-> m, sid |-> NoSession,
                                               bound |-> topics[m.topicName]]]
            /\ UNCHANGED topic_owners
    /\ UNCHANGED <<topics, server1_connection, client_connections, cstate,
                   bstate, btask, nextSid, log>>
    /\ UNCHANGED <<avars, mvars>> /\ call' = NoCall
    /\ UNCHANGED destroy_requested
    /\ UNCHANGED wvars

\* Mutant: the id is derived from the request (the user) and not drawn afresh.
SessionIdOfRequestReused(n) == 1

\* create_session's str(uuid.uuid4()): the id of the n-th session created.
SessionIdOfRequest(n) == n

\* The bootstrap endpoint answers 201 with a fresh session id: bind the topic,
\* record the owner, and suspend in log_to_topic.
CreateSessionGranted(c) ==
    /\ ctask[c].pc = "create_http"
    /\ nextSid <= MaxSessions
    /\ topics' = [topics EXCEPT ![ctask[c].msg.topicName] = SessionIdOfRequest(nextSid)]
    /\ topic_owners' = OwnersAfterCreate(ctask[c].msg.topicName, SessionIdOfRequest(nextSid), c)
    /\ nextSid' = nextSid + 1
    /\ ctask' = [ctask EXCEPT ![c].pc = "create_log", ![c].sid = SessionIdOfRequest(nextSid)]
    /\ recv' = NoRecv /\ sent' = {}
    /\ UNCHANGED <<server1_connection, client_connections, cstate, bstate, btask, log, budget>>
    /\ UNCHANGED <<avars, mvars>> /\ call' = NoCall
    /\ UNCHANGED destroy_requested
    /\ UNCHANGED wvars

\* The bootstrap request fails (status other than 201, or an exception).
CreateSessionRefused(c) ==
    /\ ctask[c].pc = "create_http"
    /\ topic_owners' = OwnersAfterCreate(ctask[c].msg.topicName, NoSession, c)
    /\ sent' = SendClient(c, Response(c, ctask[c].msg, FALSE))
    /\ Finish(c)
    /\ recv' = NoRecv
    /\ UNCHANGED <<topics, server1_connection, client_connections, cstate,
                   bstate, btask, nextSid, log, budget>>
    /\ UNCHANGED <<avars, mvars>> /\ call' = NoCall
    /\ UNCHANGED destroy_requested
    /\ UNCHANGED wvars

\* log_to_topic("session opened - <id>") completes; create_topic returns True.
CreateLogged(c) ==
    /\ ctask[c].pc = "create_log"
    /\ log' = Append1(ctask[c].msg.topicName, LogLine("session opened", ctask[c].sid, Absent))
    /\ sent' = SendClient(c, Response(c, ctask[c].msg, TRUE))
    /\ Finish(c)
    /\ recv' = NoRecv
    /\ UNCHANGED <<topics, topic_owners, server1_connection, client_connections, cstate,
                   bstate, btask, nextSid, budget>>
    /\ UNCHANGED <<avars, mvars>> /\ call' = NoCall
    /\ UNCHANGED destroy_requested
    /\ UNCHANGED wvars

\* stop_topic up to log_to_topic: an unknown topic fails at once; otherwise the
\* session_destroy envelope is sent to the backend.
ReceiveStopTopic(c, m) ==
    /\ CanReceive(c)
    /\ m.type = "stop_topic" /\ HasRequiredFields(m)
    /\ budget' = budget - 1
    /\ recv' = RecvClient(c, m)
    /\ IF ~TopicFound(m.topicName)
       THEN /\ sent' = SendClient(c, Response(c, m, FALSE))
            /\ UNCHANGED ctask
       ELSE /\ sent' = SendBackend("session_destroy", topics[m.topicName], Absent)
            /\ ctask' = [ctask EXCEPT ![c] = [pc |-> "stop_log", msg |-> m,
                                               sid |-> topics[m.topicName],
                                               bound |-> topics[m.topicName]]]
    /\ destroy_requested' =
           destroy_requested \cup {e.sessionId : e \in {x \in sent' : x.type = "session_destroy"}}
    /\ UNCHANGED <<topics, topic_owners, server1_connection, client_connections, cstate,
                   bstate, btask, nextSid, log>>
    /\ UNCHANGED <<avars, mvars>> /\ call' = NoCall
    /\ UNCHANGED wvars

\* The registry after `del self.topics[t]` and the clean-up of the owner.
TopicsAfterStop(t) == [topics EXCEPT ![t] = NoSession]
\* Mutant: the clean-up of the owner is missing.
OwnersAfterStopKept(t) == topic_owners

OwnersAfterStop(t) == [topic_owners EXCEPT ![t] = NoOwner]

\* The stop line is logged; del self.topics[t] raises KeyError when the binding
\* is gone by now (stop_topic then returns False); else the owner is removed.
StopLogged(c) ==
    /\ ctask[c].pc = "stop_log"
    /\ log' = Append1(ctask[c].msg.topicName, LogLine("stop", NoSession, Absent))
    /\ IF TopicFound(ctask[c].msg.topicName)
       THEN /\ topics' = TopicsAfterStop(ctask[c].msg.topicName)
            /\ topic_owners' = OwnersAfterStop(ctask[c].msg.topicName)
            /\ sent' = SendClient(c, Response(c, ctask[c].msg, TRUE))
       ELSE /\ UNCHANGED <<topics, topic_owners>>
            /\ sent' = SendClient(c, Response(c, ctask[c].msg, FALSE))
    /\ Finish(c)
    /\ recv' = NoRecv
    /\ UNCHANGED <<server1_connection, client_connections, cstate, bstate, btask,
                   nextSid, budget>>
    /\ UNCHANGED <<avars, mvars>> /\ call' = NoCall
    /\ UNCHANGED destroy_requested
    /\ UNCHANGED wvars

\* send_command_to_topic up to log_to_topic, as far as the router goes.
SendCommandRead(c, m) ==
    /\ CanReceive(c)
    /\ m.type = "send_command" /\ HasRequiredFields(m)
    /\ budget' = budget - 1
    /\ recv' = RecvClient(c, m)
    /\ IF ~TopicFound(m.topicName)
       THEN /\ sent' = SendClient(c, Response(c, m, FALSE))
            /\ UNCHANGED ctask
       ELSE /\ sent' = SendBackend("command", topics[m.topicName], m.command)
            /\ ctask' = [ctask EXCEPT ![c] = [pc |-> "cmd_log", msg |-> m,
                                               sid |-> topics[m.topicName],
                                               bound |-> topics[m.topicName]]]
    /\ UNCHANGED <<topics, topic_owners, server1_connection, client_connections, cstate,
                   bstate, btask, nextSid, log>>
    /\ UNCHANGED <<avars, mvars>> /\ call' = NoCall
    /\ UNCHANGED destroy_requested

\* The same, with the adapter's end of the connection out of sight.
ReceiveSendCommand(c, m) == SendCommandRead(c, m) /\ UNCHANGED wvars

\* The COMMAND line is logged; send_command_to_topic returns True.
CommandLogged(c) ==
    /\ ctask[c].pc = "cmd_log"
    /\ log' = Append1(ctask[c].msg.topicName, LogLine("COMMAND", NoSession, ctask[c].msg.command))
    /\ sent' = SendClient(c, Response(c, ctask[c].msg, TRUE))
    /\ Finish(c)
    /\ recv' = NoRecv
    /\ UNCHANGED <<topics, topic_owners, server1_connection, client_connections, cstate,
                   bstate, btask, nextSid, budget>>
    /\ UNCHANGED <<avars, mvars>> /\ call' = NoCall
    /\ UNCHANGED destroy_requested
    /\ UNCHANGED wvars

\* ------------------------------------------------- backend connection
\* handle_server1_connection is entered: the new websocket is recorded.  There
\* is one adapter, which connects again only after it lost its connection; the
\* read loop of the lost connection may not have ended yet.
BackendConnect(b) ==
    /\ bstate[b] = "new"
    /\ \A d \in BackendConns : bstate[d] # "open"
    /\ NextAccepted(BackendOrder, bstate, b)
    /\ bstate' = [bstate EXCEPT ![b] = "open"]
    /\ server1_connection' = b
    /\ recv' = NoRecv /\ sent' = {}
    /\ UNCHANGED <<topics, topic_owners, client_connections, cstate, ctask, btask,
                   nextSid, log, budget>>
    /\ UNCHANGED <<avars, mvars>> /\ call' = NoCall
    /\ UNCHANGED destroy_requested
    /\ UNCHANGED wvars

\* The backend connection is lost: with an error (the read loop will raise
\* ConnectionClosed) or by a normal close (the read loop will just end).
BackendClose(b, how) ==
    /\ bstate[b] = "open"
    /\ how \in {"closed_err", "closed_ok"}
    /\ budget > 0
    /\ budget' = budget - 1
    /\ bstate' = [bstate EXCEPT ![b] = how]
    /\ recv' = NoRecv /\ sent' = {}
    /\ UNCHANGED <<topics, topic_owners, server1_connection, client_connections, cstate,
                   ctask, btask, nextSid, log>>
    /\ UNCHANGED <<avars, mvars>> /\ call' = NoCall
    /\ UNCHANGED destroy_requested
    /\ UNCHANGED wvars

\* Mutant: the end of the backend read loop stops every topic.
BackendHandlerExitStopsTopics(b) ==
    /\ bstate[b] \in {"closed_err", "closed_ok"}
    /\ btask[b].pc = "idle"
    /\ bstate' = [bstate EXCEPT ![b] = "gone"]
    /\ server1_connection' = IF bstate[b] = "closed_err" THEN NoConn ELSE server1_connection
    /\ topics' = [t \in Topics |-> NoSession]
    /\ topic_owners' = [t \in Topics |-> NoOwner]
    /\ recv' = NoRecv /\ sent' = {}
    /\ UNCHANGED <<client_connections, cstate, ctask, btask, nextSid, log, budget>>
    /\ UNCHANGED <<avars, mvars>> /\ call' = NoCall
    /\ UNCHANGED destroy_requested
    /\ UNCHANGED wvars

\* The read loop of a lost backend connection ends.  Only the except branches
\* reset server1_connection, and they reset it whatever it refers to.
BackendHandlerExit(b) ==
    /\ bstate[b] \in {"closed_err", "closed_ok"}
    /\ btask[b].pc = "idle"
    /\ bstate' = [bstate EXCEPT ![b] = "gone"]
    /\ server1_connection' = IF bstate[b] = "closed_err" THEN NoConn ELSE server1_connection
    /\ recv' = NoRecv /\ sent' = {}
    /\ UNCHANGED <<topics, topic_owners, client_connections, cstate, ctask, btask,
                   nextSid, log, budget>>
    /\ UNCHANGED <<avars, mvars>> /\ call' = NoCall
    /\ UNCHANGED destroy_requested
    /\ UNCHANGED wvars

\* ------------------------------------------------ handle_server1_message
\* Mutant: the read loop starts the handler as a task and reads on.
BackendCanReceiveAnyTime(b) == bstate[b] = "open" /\ budget > 0

\* `async for message in websocket: await self.handle_server1_message(message)`:
\* the next message is read when the handler of the last one has returned.
BackendCanReceive(b) == bstate[b] = "open" /\ btask[b].pc = "idle" /\ budget > 0

\* stdout for a session: handle_session_output resolves the topic, and
\* suspends in log_to_topic when it found one.
ReceiveStdout(b, m) ==
    /\ BackendCanReceive(b)
    /\ m.type = "stdout" /\ m.sessionId # NoSession /\ m.data # Absent
    /\ budget' = budget - 1
    /\ recv' = RecvBackend(b, m) /\ sent' = {}
    /\ IF TopicsOfSession(m.sessionId) = {}
       THEN UNCHANGED btask
       ELSE \E t \in TopicsOfSession(m.sessionId) :
                btask' = [btask EXCEPT ![b] = [pc |-> "out_log", topic |-> t,
                                               data |-> m.data, owner |-> NoOwner]]
    /\ UNCHANGED <<topics, topic_owners, server1_connection, client_connections, cstate,
                   bstate, ctask, nextSid, log>>
    /\ UNCHANGED <<avars, mvars>> /\ call' = NoCall
    /\ UNCHANGED destroy_requested
    /\ UNCHANGED wvars

\* Mutant: a session_destroyed notice unbinds the topic of the session.
TopicsAfterNoticeUnbound(m) ==
    [t \in Topics |-> IF m.type = "session_destroyed" /\ topics[t] = m.sessionId
                      THEN NoSession ELSE topics[t]]

\* The session_created and session_destroyed branches read sessionId and
\* write it to the process log (logger.info), nothing else.
TopicsAfterNotice(m) == topics

\* session_created, session_destroyed (logged only), an unknown type, invalid
\* JSON, or a stdout lacking sessionId or data.  An exception that left the
\* handler would end the read loop of handle_server1_connection.
ReceiveBackendOther(b, m) ==
    /\ BackendCanReceive(b)
    /\ ~(m.type = "stdout" /\ m.sessionId # NoSession /\ m.data # Absent)
    /\ budget' = budget - 1
    /\ recv' = RecvBackend(b, m) /\ sent' = {}
    /\ bstate' = IF MessageHandlerCatches(m.type) THEN bstate
                 ELSE [bstate EXCEPT ![b] = "closed_err"]
    /\ topics' = TopicsAfterNotice(m)
    /\ UNCHANGED <<topic_owners, server1_connection, client_connections, cstate,
                   ctask, btask, nextSid, log>>
    /\ UNCHANGED <<avars, mvars>> /\ call' = NoCall
    /\ UNCHANGED destroy_requested
    /\ UNCHANGED wvars

OutputEnvelope(o, t, data) == Envelope(o, "output", t, FALSE, Absent, data, NoSession)

\* Mutant: the except branch of send_output_to_owner only logs the failure.
OwnersAfterSendFailureKept(t) == topic_owners

\* send_output_to_owner's except branch: del self.topic_owners[topic_name].
OwnersAfterSendFailure(t) == [topic_owners EXCEPT ![t] = NoOwner]

\* The OUTPUT line is logged and send_output_to_owner runs: no owner, nothing
\* is sent; an open owner connection gets the envelope; on any other the send
\* raises, at once (raiseNow) or after a suspension (a closing connection).
OutputLogged(b, raiseNow) ==
    /\ btask[b].pc = "out_log"
    /\ log' = Append1(btask[b].topic, LogLine("OUTPUT", NoSession, btask[b].data))
    /\ recv' = NoRecv
    /\ IF \A o \in OutputRecipients(btask[b].topic) : cstate[o] = "open"
       THEN /\ raiseNow
            /\ sent' = {OutputEnvelope(o, btask[b].topic, btask[b].data) :
                          o \in OutputRecipients(btask[b].topic)}
            /\ btask' = [btask EXCEPT ![b] = IdleBackend]
            /\ UNCHANGED topic_owners
       ELSE /\ sent' = {}
            /\ IF raiseNow
               THEN /\ topic_owners' = OwnersAfterSendFailure(btask[b].topic)
                    /\ btask' = [btask EXCEPT ![b] = IdleBackend]
               ELSE /\ btask' = [btask EXCEPT ![b].pc = "out_send",
                                               ![b].owner = topic_owners[btask[b].topic]]
                    /\ UNCHANGED topic_owners
    /\ UNCHANGED <<topics, server1_connection, client_connections, cstate, bstate, ctask,
                   nextSid, budget>>
    /\ UNCHANGED <<avars, mvars>> /\ call' = NoCall
    /\ UNCHANGED destroy_requested
    /\ UNCHANGED wvars

\* `del self.topic_owners[topic_name]` raises KeyError when the entry is gone.
DelOwnerRaises(t) == topic_owners[t] = NoOwner

\* The suspended send raises: del self.topic_owners[topic_name], which itself
\* raises KeyError (caught in handle_server1_message) when the entry is gone.
OutputSendFailed(b) ==
    /\ btask[b].pc = "out_send"
    /\ topic_owners' = OwnersAfterSendFailure(btask[b].topic)
    /\ btask' = [btask EXCEPT ![b] = IdleBackend]
    /\ recv' = NoRecv /\ sent' = {}
    /\ UNCHANGED <<topics, server1_connection, client_connections, cstate, bstate, ctask,
                   nextSid, log, budget>>
    /\ UNCHANGED <<avars, mvars>> /\ call' = NoCall
    /\ UNCHANGED destroy_requested
    /\ UNCHANGED wvars

\* ------------------------------------------------------------ the router
InitRouter ==
    /\ topics = [t \in Topics |-> NoSession]
    /\ topic_owners = [t \in Topics |-> NoOwner]
    /\ server1_connection = NoConn
    /\ client_connections = {}
    /\ cstate = [c \in Clients |-> "new"]
    /\ bstate = [b \in BackendConns |-> "new"]
    /\ ctask = [c \in Clients |-> IdleClient]
    /\ btask = [b \in BackendConns |-> IdleBackend]
    /\ nextSid = 1
    /\ log = [t \in Topics |-> <<>>]
    /\ budget = MaxEvents
    /\ recv = NoRecv
    /\ sent = {}
    /\ destroy_requested = {}

NextRouter ==
    \/ \E c \in Clients : ClientConnect(c)
    \/ \E c \in Clients : ClientClose(c)
    \/ \E c \in Clients : ClientHandlerExit(c)
    \/ \E c \in Clients, m \in ClientMsgs : ReceiveDropped(c, m)
    \/ \E c \in Clients, m \in ClientMsgs : ReceiveCreateTopic(c, m)
    \/ \E c \in Clients : CreateSessionGranted(c)
    \/ \E c \in Clients : CreateSessionRefused(c)
    \/ \E c \in Clients : CreateLogged(c)
    \/ \E c \in Clients, m \in ClientMsgs : ReceiveStopTopic(c, m)
    \/ \E c \in Clients : StopLogged(c)
    \/ \E c \in Clients, m \in ClientMsgs : ReceiveSendCommand(c, m)
    \/ \E c \in Clients : CommandLogged(c)
    \/ \E b \in BackendConns : BackendConnect(b)
    \/ \E b \in BackendConns, how \in {"closed_err", "closed_ok"} : BackendClose(b, how)
    \/ \E b \in BackendConns : BackendHandlerExit(b)
    \/ \E b \in BackendConns, m \in BackendMsgs : ReceiveStdout(b, m)
    \/ \E b \in BackendConns, m \in BackendMsgs : ReceiveBackendOther(b, m)
    \/ \E b \in BackendConns, raiseNow \in BOOLEAN : OutputLogged(b, raiseNow)
    \/ \E b \in BackendConns : OutputSendFailed(b)

\* The router once the backend has connected and the first client has
\* created topic t1: the state after BackendConnect, ClientConnect,
\* ReceiveCreateTopic, CreateSessionGranted and CreateLogged, with every
\* event still to come.
InitBound ==
    /\ topics = [t \in Topics |-> IF t = "t1" THEN SessionIdOfRequest(1) ELSE NoSession]
    /\ topic_owners = [t \in Topics |-> IF t = "t1" THEN ClientOrder[1] ELSE NoOwner]
    /\ server1_connection = BackendOrder[1]
    /\ client_connections = {ClientOrder[1]}
    /\ cstate = [c \in Clients |-> IF c = ClientOrder[1] THEN "open" ELSE "new"]
    /\ bstate = [b \in BackendConns |-> IF b = BackendOrder[1] THEN "open" ELSE "new"]
    /\ ctask = [c \in Clients |-> IdleClient]
    /\ btask = [b \in BackendConns |-> IdleBackend]
    /\ nextSid = 2
    /\ log = [t \in Topics |-> IF t = "t1"
                               THEN <<LogLine("session opened", SessionIdOfRequest(1), Absent)>>
                               ELSE <<>>]
    /\ budget = MaxEvents
    /\ recv = NoRecv
    /\ sent = {}
    /\ destroy_requested = {}

\* ============================================================ the adapter
NotConnecting == [pc |-> "none", attempt |-> 0, caller |-> "none", waited |-> 0]

\* connect_websocket is entered (for attempt in range(max_retries): attempt 0).
EnterConnect(caller) == [pc |-> "connect", attempt |-> 0, caller |-> caller, waited |-> 0]

\* Mutant: off by one in the test of the last attempt.
IsLastAttemptLate(attempt) == ~(attempt < max_retries)

\* The attempt that raises instead of sleeping: attempt < max_retries - 1 fails.
IsLastAttempt(attempt) == ~(attempt < max_retries - 1)

\* start(): the tmux root session exists; connect_websocket is called.
AdapterStart ==
    /\ connecting.pc = "none" /\ listeners = 0 /\ listener = "none"
    /\ connecting' = EnterConnect("start")
    /\ UNCHANGED <<websocket, sequence, sessions, listener, listeners, monitor,
                   losses, nextUuid, emitted>>
    /\ call' = NoCall
    /\ UNCHANGED <<rvars, mvars, command_timestamps>>
    /\ UNCHANGED wvars

\* websockets.connect succeeds (whether server-2 is reachable is the
\* environment's choice at each attempt): the websocket is recorded, a listener task is
\* created and the loop is left; a call made by a listener returns into it,
\* and that listener ends.
ConnectSucceeds ==
    /\ connecting.pc = "connect"
    /\ websocket' = "open"
    /\ listener' = "listening"
    /\ listeners' = listeners + 1
    /\ connecting' = [connecting EXCEPT !.pc = "returned"]
    /\ UNCHANGED <<sequence, sessions, monitor, losses, nextUuid, emitted>>
    /\ call' = NoCall
    /\ UNCHANGED <<rvars, mvars, command_timestamps>>
    /\ UNCHANGED wvars

\* websockets.connect raises: sleep retry_delay, or re-raise on the last attempt
\* (into start(), or into the listener task that called).
ConnectFails ==
    /\ connecting.pc = "connect"
    /\ IF IsLastAttempt(connecting.attempt)
       THEN /\ connecting' = [connecting EXCEPT !.pc = "raised"]
            /\ listener' = IF connecting.caller = "listener" THEN "crashed" ELSE listener
       ELSE /\ connecting' = [connecting EXCEPT !.pc = "sleep"]
            /\ UNCHANGED listener
    /\ UNCHANGED <<websocket, sequence, sessions, listeners, monitor, losses,
                   nextUuid, emitted>>
    /\ call' = NoCall
    /\ UNCHANGED <<rvars, mvars, command_timestamps>>
    /\ UNCHANGED wvars

\* asyncio.sleep(retry_delay) is over: the next attempt.
RetrySleepDone ==
    /\ connecting.pc = "sleep"
    /\ connecting' = [connecting EXCEPT !.pc = "connect", !.attempt = @ + 1,
                                        !.waited = @ + retry_delay]
    /\ UNCHANGED <<websocket, sequence, sessions, listener, listeners, monitor,
                   losses, nextUuid, emitted>>
    /\ call' = NoCall
    /\ UNCHANGED <<rvars, mvars, command_timestamps>>
    /\ UNCHANGED wvars

\* The connection to server-2 is lost: with an error, or by a normal close.
WebsocketLost(how) ==
    /\ websocket = "open"
    /\ how \in {"closed_err", "closed_ok"}
    /\ losses < MaxLosses
    /\ losses' = losses + 1
    /\ websocket' = how
    /\ UNCHANGED <<sequence, sessions, connecting, listener, listeners, monitor,
                   nextUuid, emitted>>
    /\ call' = NoCall
    /\ UNCHANGED <<rvars, mvars, command_timestamps>>
    /\ UNCHANGED wvars

\* listen_for_messages: `async for message in self.websocket` raises
\* ConnectionClosed after an error (sleep, then reconnect) and just ends after
\* a normal close.
ListenerSeesClose ==
    /\ listener = "listening"
    /\ websocket \in {"closed_err", "closed_ok"}
    /\ listener' = IF websocket = "closed_err" THEN "sleep" ELSE "ended"
    /\ UNCHANGED <<websocket, sequence, sessions, connecting, listeners, monitor,
                   losses, nextUuid, emitted>>
    /\ call' = NoCall
    /\ UNCHANGED <<rvars, mvars, command_timestamps>>
    /\ UNCHANGED wvars

\* asyncio.sleep(2) is over: await self.connect_websocket().
ListenerReconnects ==
    /\ listener = "sleep"
    /\ listener' = "reconnect"
    /\ connecting' = EnterConnect("listener")
    /\ UNCHANGED <<websocket, sequence, sessions, listeners, monitor, losses,
                   nextUuid, emitted>>
    /\ call' = NoCall
    /\ UNCHANGED <<rvars, mvars, command_timestamps>>
    /\ UNCHANGED wvars

\* ---------------------------------------------------- sessions, monitors
\* main() starts the HTTP server only after start() returned.
HttpServing == listeners > 0

\* create_session (tmux succeeds): the session is stored and its monitor task
\* is created.
CreateSession ==
    /\ HttpServing
    /\ nextUuid <= MaxAdapterSessions
    /\ sessions' = sessions \cup {nextUuid}
    /\ monitor' = [monitor EXCEPT ![nextUuid] = "start"]
    /\ nextUuid' = nextUuid + 1
    /\ UNCHANGED <<websocket, sequence, connecting, listener, listeners, losses,
                   emitted>>
    /\ call' = NoCall
    /\ UNCHANGED <<rvars, mvars, command_timestamps>>
    /\ UNCHANGED wvars

\* destroy_session (tmux succeeds) of a known session.
DestroySession(s) ==
    /\ HttpServing
    /\ s \in sessions
    /\ sessions' = sessions \ {s}
    /\ command_timestamps' = command_timestamps \ {s}
    /\ UNCHANGED <<websocket, sequence, connecting, listener, listeners, monitor,
                   losses, nextUuid, emitted>>
    /\ call' = NoCall
    /\ UNCHANGED <<rvars, mvars>>
    /\ UNCHANGED wvars

\* ------------------------------------- the HTTP handlers, every outcome
\* Mutant: send_command_to_window lets the CalledProcessError of send-keys out.
CreateOutcomeProbeRaises(windowOk, probeOk) ==
    IF windowOk /\ probeOk THEN "returned" ELSE "raised"

\* create_session: new-window (check=True) raises when tmux fails; the probe
\* goes through send_command_to_window, which catches its CalledProcessError.
CreateOutcome(windowOk, probeOk) == IF windowOk THEN "returned" ELSE "raised"

\* Mutant: the session is stored before the window is created.
SessionsAfterCreateEager(outcome, id) == sessions \cup {id}

\* self.sessions[session_id] = window_name is reached only past both commands.
SessionsAfterCreate(outcome, id) ==
    IF outcome = "returned" THEN sessions \cup {id} ELSE sessions

\* TmuxHTTPServer.create_session: 201 with the id, 422 when create_session raised.
CreateStatus(outcome) == IF outcome = "returned" THEN 201 ELSE 422

\* The tmux commands of create_session: the probe runs only past new-window.
CreateCommands(windowOk, probeOk) ==
    IF windowOk THEN <<Tmux("new-window", TRUE), Tmux("send-keys", probeOk)>>
    ELSE <<Tmux("new-window", FALSE)>>

\* POST /sessions: create_session with either command failing or not.  The
\* session is stored and its monitor task created when create_session
\* returns; nothing is changed when it raises (the uuid drawn is lost).
PostSession(windowOk, probeOk) ==
    /\ HttpServing
    /\ nextUuid <= MaxAdapterSessions
    /\ windowOk \/ probeOk
    /\ LET outcome == CreateOutcome(windowOk, probeOk)
       IN /\ sessions' = SessionsAfterCreate(outcome, nextUuid)
          /\ monitor' = IF outcome = "returned"
                        THEN [monitor EXCEPT ![nextUuid] = "start"]
                        ELSE monitor
          /\ nextUuid' = nextUuid + 1
          /\ call' = Call("create_session", nextUuid, outcome, CreateStatus(outcome),
                          CreateCommands(windowOk, probeOk))
    /\ UNCHANGED <<websocket, sequence, connecting, listener, listeners, losses,
                   emitted>>
    /\ UNCHANGED <<rvars, mvars, command_timestamps>>
    /\ UNCHANGED wvars

\* Mutant: the `if not window_name` test is missing.
SessionFoundAlways(s) == TRUE

\* self.sessions.get(session_id) is truthy.
SessionFound(s) == s \in sessions

\* delete_session: 204 when destroy_session returned True, else 404.
DeleteStatus(success) == IF success THEN 204 ELSE 404

\* destroy_session of any id.  An id that is not in self.sessions returns
\* False at once; otherwise pipe-pane -k (its exit status is ignored), then
\* kill-window: the session and its command timestamp are removed when that
\* succeeded, and False is returned with the session kept when it failed.
DestroySessionCall(s, killOk) ==
    LET success == SessionFound(s) /\ killOk
    IN /\ sessions' = IF success THEN sessions \ {s} ELSE sessions
       /\ command_timestamps' = IF success THEN command_timestamps \ {s}
                                ELSE command_timestamps
       /\ call' = Call("destroy_session", s, IF success THEN "true" ELSE "false",
                       DeleteStatus(success),
                       IF SessionFound(s)
                       THEN <<Tmux("pipe-pane", TRUE), Tmux("kill-window", killOk)>>
                       ELSE <<>>)

\* DELETE /sessions/{id}.
DeleteSession(s, killOk) ==
    /\ HttpServing
    /\ SessionFound(s) \/ killOk
    /\ DestroySessionCall(s, killOk)
    /\ UNCHANGED <<websocket, sequence, connecting, listener, listeners, monitor,
                   losses, nextUuid, emitted>>
    /\ UNCHANGED <<rvars, mvars>>
    /\ UNCHANGED wvars

\* Router -> adapter envelopes, as handle_command reads them (data.get).
AdapterMsg(type, sessionId, data) == [type |-> type, sessionId |-> sessionId, data |-> data]

AdapterMsgs ==
    {AdapterMsg("command", s, k) : s \in 0..MaxAdapterSessions, k \in Commands \cup {Absent}}
    \cup {AdapterMsg("session_destroy", s, Absent) : s \in 0..MaxAdapterSessions}
    \cup {AdapterMsg("unknown_type", NoSession, Absent)}

\* Mutant: the timestamp is recorded before the session is looked up.
TimestampsAfterCommandEager(s) == command_timestamps \cup {s}

\* send_command_to_session: self.command_timestamps[session_id] = time.time()
\* comes after the return for an unknown session.
TimestampsAfterCommand(s) ==
    IF SessionFound(s) THEN command_timestamps \cup {s} ELSE command_timestamps

\* send_command_to_session: nothing for an unknown session; else the time is
\* recorded and send-keys runs (send_command_to_window catches its failure).
SendCommandToSession(s, keysOk) ==
    /\ command_timestamps' = TimestampsAfterCommand(s)
    /\ call' = Call("send_command_to_session", s, "returned", 0,
                    IF SessionFound(s) THEN <<Tmux("send-keys", keysOk)>> ELSE <<>>)
    /\ UNCHANGED sessions

\* listen_for_messages reads a message of the router and handle_command
\* dispatches it: a command with sessionId and data, a session_destroy with
\* sessionId; anything else is ignored.  tmuxOk: the exit of send-keys or
\* kill-window.
HandleCommandCall(m, tmuxOk) ==
    IF m.type = "command" /\ m.sessionId # NoSession /\ m.data # Absent
    THEN /\ SessionFound(m.sessionId) \/ tmuxOk
         /\ SendCommandToSession(m.sessionId, tmuxOk)
    ELSE IF m.type = "session_destroy" /\ m.sessionId # NoSession
    THEN /\ SessionFound(m.sessionId) \/ tmuxOk
         /\ DestroySessionCall(m.sessionId, tmuxOk)
    ELSE /\ tmuxOk
         /\ call' = NoCall
         /\ UNCHANGED <<sessions, command_timestamps>>

\* A message of the router is handled, whatever the router has sent.
HandleCommand(m, tmuxOk) ==
    /\ listener = "listening" /\ websocket = "open"
    /\ HandleCommandCall(m, tmuxOk)
    /\ UNCHANGED <<websocket, sequence, connecting, listener, listeners, monitor,
                   losses, nextUuid, emitted>>
    /\ UNCHANGED <<rvars, mvars>>
    /\ UNCHANGED wvars

\* Mutant: the loop is `while True`.
AfterLoopTestForever(s) == "read"

\* `while session_id in self.sessions`: the loop body is entered, or the loop
\* is left and the task ends (the finally branch runs pipe-pane -k).
AfterLoopTest(s) == IF s \in sessions THEN "read" ELSE "done"

\* monitor_session_output starts: no window, return; else pipe-pane, and the
\* first test of `while session_id in self.sessions`.
MonitorStart(s) ==
    /\ monitor[s] = "start"
    /\ monitor' = [monitor EXCEPT ![s] = IF s \in sessions THEN "read" ELSE "done"]
    /\ UNCHANGED <<websocket, sequence, sessions, connecting, listener, listeners,
                   losses, nextUuid, emitted>>
    /\ call' = NoCall
    /\ UNCHANGED <<rvars, mvars, command_timestamps>>
    /\ UNCHANGED wvars

\* Mutant: the counter moves on only after a send that succeeded.
NextSequenceIfDelivered(seqNo, delivered) == IF delivered THEN seqNo + 1 ELSE seqNo

\* self.sequence after send_output_to_server2 built a message.
NextSequence(seqNo, delivered) == seqNo + 1

\* send_output_to_server2: nothing without a websocket; else the message takes
\* self.sequence, the counter moves on, and the send fails on a lost connection.
SendOutputToServer2(s) ==
    IF websocket = "none"
    THEN UNCHANGED <<sequence, emitted>>
    ELSE /\ emitted' = Append(emitted, [sessionId |-> s, sequence |-> sequence,
                                        delivered |-> websocket = "open"])
         /\ sequence' = NextSequence(sequence, websocket = "open")

\* The file read of the monitor returns: new content past the send interval
\* is sent (emit), then the task sleeps.
MonitorRead(s, emit) ==
    /\ monitor[s] = "read"
    /\ IF emit
       THEN Len(emitted) < MaxEmitted /\ SendOutputToServer2(s)
       ELSE UNCHANGED <<sequence, emitted>>
    /\ monitor' = [monitor EXCEPT ![s] = "sleep"]
    /\ UNCHANGED <<websocket, sessions, connecting, listener, listeners, losses,
                   nextUuid>>
    /\ call' = NoCall
    /\ UNCHANGED <<rvars, mvars, command_timestamps>>
    /\ UNCHANGED wvars

\* asyncio.sleep(0.1) is over: the loop condition is tested again.
MonitorWake(s) ==
    /\ monitor[s] = "sleep"
    /\ monitor' = [monitor EXCEPT ![s] = AfterLoopTest(s)]
    /\ UNCHANGED <<websocket, sequence, sessions, connecting, listener, listeners,
                   losses, nextUuid, emitted>>
    /\ call' = NoCall
    /\ UNCHANGED <<rvars, mvars, command_timestamps>>
    /\ UNCHANGED wvars

AdapterSessionIds == 1..MaxAdapterSessions

InitAdapter ==
    /\ websocket = "none"
    /\ sequence = 0
    /\ sessions = {}
    /\ connecting = NotConnecting
    /\ listener = "none"
    /\ listeners = 0
    /\ monitor = [s \in AdapterSessionIds |-> "none"]
    /\ losses = 0
    /\ nextUuid = 1
    /\ emitted = <<>>
    /\ command_timestamps = {}
    /\ call = NoCall

NextAdapter ==
    \/ AdapterStart
    \/ ConnectSucceeds
    \/ ConnectFails
    \/ RetrySleepDone
    \/ \E how \in {"closed_err", "closed_ok"} : WebsocketLost(how)
    \/ ListenerSeesClose
    \/ ListenerReconnects
    \/ CreateSession
    \/ \E s \in AdapterSessionIds : DestroySession(s)
    \/ \E s \in AdapterSessionIds : MonitorStart(s)
    \/ \E s \in AdapterSessionIds, emit \in BOOLEAN : MonitorRead(s, emit)
    \/ \E s \in AdapterSessionIds : MonitorWake(s)

\* ======================================================= specifications
vars == <<rvars, avars, call, mvars, wvars>>

NoChunk == [passed |-> FALSE, by |-> "none", data |-> <<>>]

\* time.time() when the adapter starts: seconds since 1970, further from the
\* initial last_send_time = 0 than any interval.
Epoch == 4

InitMonitor ==
    /\ file = <<>>
    /\ pane = <<>>
    /\ last_position = 0
    /\ last_output = <<>>
    /\ chunk = NoChunk
    /\ now = Epoch
    /\ current_time = 0
    /\ last_send_time = 0
    /\ wake_at = 0
    /\ emitted_at = <<>>
    /\ inbox = <<>>
    /\ asked = 0
    /\ typed = <<>>

Init == InitRouter /\ InitAdapter /\ InitMonitor

\* The router process.
Next == NextRouter

Spec == Init /\ [][Next]_vars

\* The state in which a first topic is bound and owned, the rest as at start.
InitDelivery == InitBound /\ InitAdapter /\ InitMonitor

\* The router from the state in which a first topic is bound and owned.
SpecDelivery == InitDelivery /\ [][Next]_vars

\* The adapter process.
SpecAdapter == Init /\ [][NextAdapter]_vars

\* The session table of the adapter as its HTTP clients and the router see it:
\* the two HTTP handlers with every outcome of tmux, the session_destroy
\* message, and the monitor tasks.
NextSessions ==
    \/ AdapterStart
    \/ ConnectSucceeds
    \/ ConnectFails
    \/ RetrySleepDone
    \/ \E windowOk, probeOk \in BOOLEAN : PostSession(windowOk, probeOk)
    \/ \E s \in AdapterSessionIds, killOk \in BOOLEAN : DeleteSession(s, killOk)
    \/ \E s \in AdapterSessionIds : DestroySession(s)
    \/ \E m \in AdapterMsgs, tmuxOk \in BOOLEAN : HandleCommand(m, tmuxOk)
    \/ \E s \in AdapterSessionIds : MonitorStart(s)
    \/ \E s \in AdapterSessionIds, emit \in BOOLEAN : MonitorRead(s, emit)
    \/ \E s \in AdapterSessionIds : MonitorWake(s)

SpecSessions == Init /\ [][NextSessions]_vars

\* ------------------------------------- the monitor of a session, in detail
\* Text is a sequence of characters; one visible character and one white
\* space character stand for all.
Alphabet == {"x", "\n"}
IsSpace(ch) == ch \in {" ", "\t", "\n", "\r"}

RECURSIVE Texts(_)
Texts(n) ==
    IF n = 0 THEN {<<>>}
    ELSE Texts(n - 1) \cup {Append(t, ch) : t \in Texts(n - 1), ch \in Alphabet}

\* str.rstrip(): without its trailing white space.
RECURSIVE RStrip(_)
RStrip(str) ==
    IF str = <<>> THEN <<>>
    ELSE IF IsSpace(str[Len(str)]) THEN RStrip(SubSeq(str, 1, Len(str) - 1))
    ELSE str

\* str.lstrip(): without its leading white space.
RECURSIVE LStrip(_)
LStrip(str) ==
    IF str = <<>> THEN <<>>
    ELSE IF IsSpace(str[1]) THEN LStrip(SubSeq(str, 2, Len(str)))
    ELSE str

\* str.strip()
Strip(str) == LStrip(RStrip(str))

\* Mutant: the test is `if new_content` (for `if new_content.strip()`).
HasTextAny(str) == str # <<>>

\* `new_content.strip()` / `current_output.strip()` is truthy.
HasText(str) == Strip(str) # <<>>

\* The session whose monitor is followed: the first one created.
Watched == 1

\* await self.send_output_to_server2(session_id, data), as called by a monitor.
PassChunk(by, data) ==
    /\ Len(emitted) < MaxEmitted
    /\ SendOutputToServer2(Watched)
    /\ chunk' = [passed |-> TRUE, by |-> by, data |-> data]

\* POST /sessions for the first session.
CreateWatched == nextUuid = Watched /\ CreateSession

\* monitor_session_output starts and pipe-pane raises CalledProcessError:
\* _fallback_monitor_session_output is entered.
MonitorFallsBack ==
    /\ monitor[Watched] = "start"
    /\ Watched \in sessions
    /\ monitor' = [monitor EXCEPT ![Watched] = "fb_sleep"]
    /\ UNCHANGED <<websocket, sequence, sessions, connecting, listener, listeners,
                   losses, nextUuid, emitted>>
    /\ call' = NoCall
    /\ UNCHANGED <<rvars, mvars, command_timestamps>>
    /\ UNCHANGED wvars

\* tmux (pipe-pane -o "cat >> output.log") appends output of the window.
TmuxWrites(ch) ==
    /\ monitor[Watched] \in {"read", "sleep"}
    /\ Len(file) < MaxFile
    /\ file' = Append(file, ch)
    /\ UNCHANGED <<pane, last_position, last_output, chunk, cvars>>
    /\ call' = NoCall
    /\ UNCHANGED <<rvars, avars>>
    /\ UNCHANGED wvars

\* Mutant: the offset moves only when the message went out.
PositionAfterReadIfDelivered(new_content) ==
    IF websocket = "open" THEN last_position + Len(new_content) ELSE last_position

\* Mutant: the offset moves by the length of what was sent.
PositionAfterReadStripped(new_content) == last_position + Len(RStrip(new_content))

\* `await f.tell()` after f.seek(last_position) and f.read(): the end of what
\* was read.
PositionAfterRead(new_content) == last_position + Len(new_content)

\* The loop body of monitor_session_output: the file is read from
\* last_position to its end; content with text, past the send interval (due),
\* is sent without its trailing white space and the offset moves to the end
\* of what was read (last_position is a local of the task: that it is
\* assigned only when the send has returned is seen by nobody); then the task
\* sleeps.
PipeSends(due) == HasText(SubSeq(file, last_position + 1, Len(file))) /\ due

PipeTurn(due) ==
    /\ monitor[Watched] = "read"
    /\ LET new_content == SubSeq(file, last_position + 1, Len(file))
       IN IF PipeSends(due)
          THEN /\ PassChunk("pipe", RStrip(new_content))
               /\ last_position' = PositionAfterRead(new_content)
          ELSE UNCHANGED <<sequence, emitted, last_position, chunk>>
    /\ monitor' = [monitor EXCEPT ![Watched] = "sleep"]
    /\ UNCHANGED <<websocket, sessions, connecting, listener, listeners, losses,
                   nextUuid>>
    /\ UNCHANGED <<file, pane, last_output>>
    /\ call' = NoCall
    /\ UNCHANGED <<rvars, command_timestamps>>
    /\ UNCHANGED wvars

\* The same, whatever the clock says: the send interval is over or not.
MonitorReadFile(due) == PipeTurn(due) /\ UNCHANGED cvars

\* The window shows something else.
PaneChanges(p) ==
    /\ monitor[Watched] = "fb_sleep"
    /\ p # pane
    /\ pane' = p
    /\ UNCHANGED <<file, last_position, last_output, chunk, cvars>>
    /\ call' = NoCall
    /\ UNCHANGED <<rvars, avars>>
    /\ UNCHANGED wvars

\* One turn of the loop of _fallback_monitor_session_output, from the test of
\* `while session_id in self.sessions` to the sleep: capture-pane (the loop is
\* left when it fails), and the captured text without its trailing white
\* space is sent when it differs from last_output, has text, and is due.
SnapshotSends(captureOk, due) ==
    /\ Watched \in sessions /\ captureOk
    /\ RStrip(pane) # last_output /\ HasText(RStrip(pane)) /\ due

SnapshotTurn(captureOk, due) ==
    /\ monitor[Watched] = "fb_sleep"
    /\ LET current_output == RStrip(pane)
       IN IF Watched \notin sessions \/ ~captureOk
          THEN /\ monitor' = [monitor EXCEPT ![Watched] = "done"]
               /\ UNCHANGED <<sequence, emitted, last_output, chunk>>
          ELSE /\ UNCHANGED monitor
               /\ IF SnapshotSends(captureOk, due)
                  THEN /\ PassChunk("fallback", current_output)
                       /\ last_output' = current_output
                  ELSE UNCHANGED <<sequence, emitted, last_output, chunk>>
    /\ UNCHANGED <<websocket, sessions, connecting, listener, listeners, losses,
                   nextUuid>>
    /\ UNCHANGED <<file, pane, last_position>>
    /\ call' = NoCall
    /\ UNCHANGED <<rvars, command_timestamps>>
    /\ UNCHANGED wvars

\* The same, whatever the clock says.
FallbackTurn(captureOk, due) == SnapshotTurn(captureOk, due) /\ UNCHANGED cvars

\* The adapter with one session and its monitor task.
NextMonitor ==
    \/ AdapterStart
    \/ ConnectSucceeds
    \/ CreateWatched
    \/ DestroySession(Watched)
    \/ MonitorStart(Watched)
    \/ MonitorFallsBack
    \/ \E ch \in Alphabet : TmuxWrites(ch)
    \/ \E due \in BOOLEAN : MonitorReadFile(due)
    \/ MonitorWake(Watched)
    \/ \E p \in Texts(MaxPane) : PaneChanges(p)
    \/ \E captureOk, due \in BOOLEAN : FallbackTurn(captureOk, due)

SpecMonitor == Init /\ [][NextMonitor]_vars

\* The file monitor of one session while the connection to server-2 is lost
\* and made again.
NextReconnect ==
    \/ AdapterStart
    \/ ConnectSucceeds
    \/ \E how \in {"closed_err", "closed_ok"} : WebsocketLost(how)
    \/ ListenerSeesClose
    \/ ListenerReconnects
    \/ CreateWatched
    \/ MonitorStart(Watched)
    \/ \E ch \in Alphabet : TmuxWrites(ch)
    \/ \E due \in BOOLEAN : MonitorReadFile(due)
    \/ MonitorWake(Watched)

SpecReconnect == Init /\ [][NextReconnect]_vars

\* ------------------------------------------- the monitor on the clock
\* The same loops with time.time() and asyncio.sleep: a clock of 0.1 s ticks
\* that advances between any two steps, also while a task is suspended in an
\* await (a file read, a sleep).
Tick ==
    /\ now < Epoch + MaxTicks
    /\ now' = now + 1
    /\ UNCHANGED <<current_time, last_send_time, wake_at, emitted_at>>
    /\ UNCHANGED <<file, pane, last_position, last_output, chunk>>
    /\ call' = NoCall
    /\ UNCHANGED <<rvars, avars>>
    /\ UNCHANGED wvars

\* The test of `while session_id in self.sessions` and, in the loop,
\* current_time = time.time(); the task then suspends in the file read.
EnterPipeTurn ==
    /\ monitor' = [monitor EXCEPT ![Watched] = AfterLoopTest(Watched)]
    /\ current_time' = IF Watched \in sessions THEN now ELSE current_time
    /\ UNCHANGED <<now, last_send_time, wake_at, emitted_at>>
    /\ UNCHANGED <<file, pane, last_position, last_output, chunk>>
    /\ UNCHANGED <<websocket, sequence, sessions, connecting, listener, listeners,
                   losses, nextUuid, emitted, command_timestamps>>
    /\ call' = NoCall
    /\ UNCHANGED rvars
    /\ UNCHANGED wvars

\* monitor_session_output starts (pipe-pane succeeded) and enters its loop.
ClockedStart == monitor[Watched] = "start" /\ EnterPipeTurn

\* asyncio.sleep(0.1) returns, not before its time.
ClockedWake == monitor[Watched] = "sleep" /\ now >= wake_at /\ EnterPipeTurn

\* The file read returns: the interval is tested on the clock value taken
\* before the read, and a send records that value as last_send_time.
ClockedReadFile ==
    LET due == (current_time - last_send_time) > min_send_interval
    IN /\ PipeTurn(due)
       /\ last_send_time' = IF PipeSends(due) THEN current_time ELSE last_send_time
       /\ emitted_at' = IF PipeSends(due) THEN Append(emitted_at, now) ELSE emitted_at
       /\ wake_at' = now + poll_sleep
       /\ UNCHANGED <<now, current_time>>

\* pipe-pane fails: the fallback loop starts with its first turn.
ClockedFallsBack ==
    /\ monitor[Watched] = "start"
    /\ Watched \in sessions
    /\ monitor' = [monitor EXCEPT ![Watched] = "fb_sleep"]
    /\ wake_at' = now
    /\ last_send_time' = 0
    /\ UNCHANGED <<now, current_time, emitted_at>>
    /\ UNCHANGED <<file, pane, last_position, last_output, chunk>>
    /\ UNCHANGED <<websocket, sequence, sessions, connecting, listener, listeners,
                   losses, nextUuid, emitted, command_timestamps>>
    /\ call' = NoCall
    /\ UNCHANGED rvars
    /\ UNCHANGED wvars

\* A turn of the fallback loop: capture-pane (a blocking call), then
\* current_time = time.time(), the test, the send, and asyncio.sleep(0.3).
ClockedFallbackTurn(captureOk) ==
    LET due == (now - last_send_time) > fallback_min_send_interval
    IN /\ now >= wake_at
       /\ SnapshotTurn(captureOk, due)
       /\ current_time' = now
       /\ last_send_time' = IF SnapshotSends(captureOk, due) THEN now ELSE last_send_time
       /\ emitted_at' = IF SnapshotSends(captureOk, due) THEN Append(emitted_at, now)
                        ELSE emitted_at
       /\ wake_at' = now + fallback_poll_sleep
       /\ UNCHANGED now

NextClock ==
    \/ AdapterStart
    \/ ConnectSucceeds
    \/ CreateWatched
    \/ DestroySession(Watched)
    \/ Tick
    \/ ClockedStart
    \/ ClockedFallsBack
    \/ \E ch \in Alphabet : TmuxWrites(ch)
    \/ ClockedReadFile
    \/ ClockedWake
    \/ \E p \in Texts(MaxPane) : PaneChanges(p)
    \/ \E captureOk \in BOOLEAN : ClockedFallbackTurn(captureOk)

SpecClock == Init /\ [][NextClock]_vars

\* ============================================================= the system
\* The router and the adapter together, as far as the registry (topics,
\* topic_owners) and the session table (sessions) go: session ids are the
\* adapter's, the bootstrap request of the router is served by the adapter,
\* and the adapter's connection is the router's backend connection.

\* websockets.connect of the adapter succeeds: handle_server1_connection of the
\* router is entered for the new websocket, and the adapter records it and
\* creates its listener.
SystemConnect(b) ==
    /\ connecting.pc = "connect"
    /\ bstate[b] = "new"
    /\ \A d \in BackendConns : bstate[d] # "open"
    /\ NextAccepted(BackendOrder, bstate, b)
    /\ websocket' = "open"
    /\ listener' = "listening"
    /\ listeners' = listeners + 1
    /\ connecting' = [connecting EXCEPT !.pc = "returned"]
    /\ bstate' = [bstate EXCEPT ![b] = "open"]
    /\ server1_connection' = b
    /\ recv' = NoRecv /\ sent' = {}
    /\ UNCHANGED <<topics, topic_owners, client_connections, cstate, ctask, btask,
                   nextSid, log, budget>>
    /\ UNCHANGED <<sequence, sessions, monitor, losses, nextUuid, emitted>>
    /\ UNCHANGED <<mvars, command_timestamps>> /\ call' = NoCall
    /\ UNCHANGED destroy_requested
    /\ UNCHANGED wvars

\* The POST /sessions of request_session_creation is served by the adapter:
\* create_session stores the session and starts its monitor, the handler
\* answers 201 with the id, and create_topic binds the topic and its owner.
SystemCreateSession(c) ==
    /\ ctask[c].pc = "create_http"
    /\ HttpServing
    /\ nextUuid <= MaxAdapterSessions
    /\ nextUuid \in SessionIds
    /\ sessions' = sessions \cup {nextUuid}
    /\ monitor' = [monitor EXCEPT ![nextUuid] = "start"]
    /\ nextUuid' = nextUuid + 1
    /\ topics' = [topics EXCEPT ![ctask[c].msg.topicName] = nextUuid]
    /\ topic_owners' = [topic_owners EXCEPT ![ctask[c].msg.topicName] = c]
    /\ ctask' = [ctask EXCEPT ![c].pc = "create_log", ![c].sid = nextUuid]
    /\ recv' = NoRecv /\ sent' = {}
    /\ UNCHANGED <<server1_connection, client_connections, cstate, bstate, btask,
                   nextSid, log, budget>>
    /\ UNCHANGED <<websocket, sequence, connecting, listener, listeners, losses, emitted>>
    /\ UNCHANGED <<mvars, command_timestamps>> /\ call' = NoCall
    /\ UNCHANGED destroy_requested
    /\ UNCHANGED wvars

\* The steps that write the registry or the session table, and those that
\* enable them.  DestroySession is destroy_session called for DELETE
\* /sessions/{id} (any HTTP client, at any time) or for a session_destroy
\* message of the router.
NextSystem ==
    \/ AdapterStart
    \/ ConnectFails
    \/ RetrySleepDone
    \/ \E b \in BackendConns : SystemConnect(b)
    \/ \E c \in Clients : ClientConnect(c)
    \/ \E c \in Clients, m \in ClientMsgs : ReceiveCreateTopic(c, m)
    \/ \E c \in Clients : SystemCreateSession(c)
    \/ \E c \in Clients : CreateSessionRefused(c)
    \/ \E c \in Clients : CreateLogged(c)
    \/ \E c \in Clients, m \in ClientMsgs : ReceiveStopTopic(c, m)
    \/ \E c \in Clients : StopLogged(c)
    \/ CreateSession
    \/ \E s \in AdapterSessionIds : DestroySession(s)

SpecSystem == Init /\ [][NextSystem]_vars

\* ------------------------------------------- commands, client to window
\* A command envelope on the backend connection, with the client connection
\* and the topic it was sent for and its number in the order in which the
\* router read the requests.
WireMsg(e, c, m, n) ==
    [type |-> e.type, sessionId |-> e.sessionId, data |-> e.data,
     conn |-> c, topicName |-> m.topicName, n |-> n]

\* The router reads a send_command request: the command envelope it writes
\* to the backend connection is in the adapter's inbox from then on.
SystemSendCommand(c, m) ==
    /\ SendCommandRead(c, m)
    /\ asked' = asked + 1
    /\ inbox' = IF \E e \in sent' : e.type = "command"
                THEN Append(inbox, WireMsg(CHOOSE e \in sent' : e.type = "command", c, m, asked + 1))
                ELSE inbox
    /\ UNCHANGED typed

\* Mutant: the listener starts handle_command as a task, and a later message
\* can reach tmux first.
NextOnWireAny(i) == TRUE

\* `async for message in self.websocket: ... await self.handle_command(data)`:
\* the oldest unread message is taken, and the next one only when its
\* handling has returned.
NextOnWire(i) == i = 1

\* listen_for_messages reads a message of the inbox and handle_command
\* handles it; a command for a known session goes to send-keys.
ListenerHandles(i, tmuxOk) ==
    /\ listener = "listening" /\ websocket = "open"
    /\ i \in 1..Len(inbox) /\ NextOnWire(i)
    /\ HandleCommandCall(inbox[i], tmuxOk)
    /\ inbox' = SubSeq(inbox, 1, i - 1) \o SubSeq(inbox, i + 1, Len(inbox))
    /\ typed' = IF inbox[i].type = "command" /\ SessionFound(inbox[i].sessionId)
                THEN Append(typed, inbox[i]) ELSE typed
    /\ UNCHANGED asked
    /\ UNCHANGED <<websocket, sequence, connecting, listener, listeners, monitor,
                   losses, nextUuid, emitted>>
    /\ UNCHANGED <<rvars, mvars>>

\* The router and the adapter, as far as commands go.
NextCommands ==
    \/ AdapterStart
    \/ \E b \in BackendConns : SystemConnect(b)
    \/ \E c \in Clients : ClientConnect(c)
    \/ \E c \in Clients, m \in ClientMsgs : ReceiveCreateTopic(c, m)
    \/ \E c \in Clients : SystemCreateSession(c)
    \/ \E c \in Clients : CreateSessionRefused(c)
    \/ \E c \in Clients : CreateLogged(c)
    \/ \E c \in Clients, m \in ClientMsgs : SystemSendCommand(c, m)
    \/ \E c \in Clients : CommandLogged(c)
    \/ \E i \in 1..MaxEvents, tmuxOk \in BOOLEAN : ListenerHandles(i, tmuxOk)
    \/ \E s \in AdapterSessionIds : DestroySession(s)

SpecCommands == Init /\ [][NextCommands]_vars

\* =============================================================== claims
RequestTypes == {"create_topic", "stop_topic", "send_command"}
ResponseTypes == {"topic_created", "topic_create_failed", "topic_stopped", "command_sent"}

Responses(envs, c) == {e \in envs : e.to = c /\ e.type \in ResponseTypes}
LastLine(t) == log[t][Len(log[t])]

\* C1: create_topic for a name that is bound when it is called (and still is
\* when the session arrives) fails and leaves the binding and the owner of
\* that name unchanged.
C1_CreateActiveFails ==
    [][\A c \in Clients :
          (/\ ctask[c].pc = "create_http"
           /\ ctask'[c].pc # "create_http"
           /\ ctask[c].bound # NoSession
           /\ topics[ctask[c].msg.topicName] = ctask[c].bound)
          => /\ topics'[ctask[c].msg.topicName] = topics[ctask[c].msg.topicName]
             /\ topic_owners'[ctask[c].msg.topicName] = topic_owners[ctask[c].msg.topicName]
             /\ ctask'[c].pc = "idle"
             /\ \A e \in Responses(sent', c) : e.type = "topic_create_failed" /\ ~e.success]_vars

\* C2: a step that ends the handling of a create_topic, stop_topic or
\* send_command message on an open connection sends exactly one response on
\* that connection, and no other step sends a response on it.
C2_ExactlyOneResponse ==
    [][\A c \in Clients :
          LET atOnce == recv'.conn = c /\ ctask'[c].pc = "idle"
              later == ctask[c].pc # "idle" /\ ctask'[c].pc = "idle"
              type == IF recv'.conn = c THEN recv'.type ELSE ctask[c].msg.type
          IN IF (atOnce \/ later) /\ type \in RequestTypes /\ cstate[c] = "open"
             THEN Cardinality(Responses(sent', c)) = 1
             ELSE Responses(sent', c) = {}]_vars

\* C3: an output envelope is sent only by the step that delivers a stdout
\* message of its topic, to one connection at most, and that connection is the
\* owner recorded for the topic at that moment; without an owner none is sent.
C3_OutputOnlyToOwner ==
    [][LET outs == {e \in sent' : e.type = "output"}
       IN /\ Cardinality(outs) <= 1
          /\ \A e \in outs :
                /\ topic_owners[e.topicName] = e.to
                /\ \E b \in BackendConns :
                      /\ btask[b].pc = "out_log" /\ btask'[b].pc = "idle"
                      /\ btask[b].topic = e.topicName /\ btask[b].data = e.data
          /\ \A b \in BackendConns :
                (btask[b].pc = "out_log" /\ btask'[b].pc # "out_log"
                 /\ topic_owners[btask[b].topic] = NoOwner) => outs = {}]_vars

\* C3 witness: the owner got an output envelope while another client was connected.
C3_Witness ==
    \E e \in sent :
        /\ e.type = "output"
        /\ \E c \in client_connections : c # e.to /\ cstate[c] = "open"

\* C4: send_command naming a topic without binding answers success false,
\* sends no command envelope, appends no log line and leaves the registry
\* unchanged.
C4_CommandUnknownTopic ==
    [][(/\ recv'.type = "send_command"
        /\ recv'.topicName # Absent /\ recv'.command # Absent
        /\ topics[recv'.topicName] = NoSession)
       => /\ sent' = {Envelope(recv'.conn, "command_sent", recv'.topicName, FALSE,
                               recv'.command, Absent, NoSession)}
          /\ log' = log
          /\ topics' = topics /\ topic_owners' = topic_owners
          /\ ctask'[recv'.conn].pc = "idle"]_vars

\* C4 witness: a command was sent to a topic that had been created and stopped.
C4_Witness ==
    /\ recv.type = "send_command"
    /\ recv.topicName # Absent /\ recv.command # Absent
    /\ topics[recv.topicName] = NoSession
    /\ Len(log[recv.topicName]) >= 2
    /\ LastLine(recv.topicName).kind = "stop"
    /\ \E e \in sent : e.type = "command_sent" /\ ~e.success

\* C5: a stdout message for a session id bound to no topic changes nothing:
\* no log line, no envelope, topics and topic_owners as before.
C5_OutputUnboundSession ==
    [][(/\ recv'.type = "stdout"
        /\ recv'.sessionId # NoSession /\ recv'.data # Absent
        /\ \A t \in Topics : topics[t] # recv'.sessionId)
       => /\ log' = log
          /\ sent' = {}
          /\ topics' = topics /\ topic_owners' = topic_owners
          /\ btask' = btask]_vars

\* C5 witness: stdout arrived for a session whose topic had been stopped,
\* while another topic was bound.
C5_Witness ==
    /\ recv.type = "stdout"
    /\ recv.sessionId # NoSession /\ recv.data # Absent
    /\ \A t \in Topics : topics[t] # recv.sessionId
    /\ \E t \in Topics :
          /\ Len(log[t]) >= 2
          /\ log[t][1].kind = "session opened" /\ log[t][1].sessionId = recv.sessionId
          /\ LastLine(t).kind = "stop"

\* C6: a create_topic that got its session answers success true, and a
\* stop_topic that follows it immediately (the last log line of the topic is
\* still its "session opened", the session still bound) answers success true
\* and leaves neither a binding nor an owner for the topic.
C6_CreateThenStop ==
    [][\A c \in Clients :
          /\ (ctask[c].pc = "create_log" /\ ctask'[c].pc = "idle")
             => /\ \A e \in Responses(sent', c) : e.type = "topic_created" /\ e.success
                /\ cstate[c] = "open" => Responses(sent', c) # {}
          /\ (/\ ctask[c].pc = "stop_log" /\ ctask'[c].pc = "idle"
              /\ log[ctask[c].msg.topicName] # <<>>
              /\ LastLine(ctask[c].msg.topicName).kind = "session opened"
              /\ LastLine(ctask[c].msg.topicName).sessionId = ctask[c].sid
              /\ topics[ctask[c].msg.topicName] = ctask[c].sid)
             => /\ topics'[ctask[c].msg.topicName] = NoSession
                /\ topic_owners'[ctask[c].msg.topicName] = NoOwner
                /\ \A e \in Responses(sent', c) : e.type = "topic_stopped" /\ e.success
                /\ cstate[c] = "open" => Responses(sent', c) # {}]_vars

\* C6 witness: the stop that directly followed a create has just answered.
C6_Witness ==
    \E e \in sent :
        /\ e.type = "topic_stopped" /\ e.success
        /\ Len(log[e.topicName]) = 2
        /\ log[e.topicName][1].kind = "session opened"
        /\ log[e.topicName][2].kind = "stop"
        /\ topics[e.topicName] = NoSession /\ topic_owners[e.topicName] = NoOwner

\* C7: the sequence numbers of the stdout messages built by
\* send_output_to_server2 are strictly increasing in emission order.
C7_SequenceStrictlyIncreasing ==
    \A i, j \in 1..Len(emitted) :
        i < j => emitted[i].sequence < emitted[j].sequence

\* C7 witness: messages of two sessions, the earlier one built while the
\* connection was lost (its send failed), the later one delivered after the
\* reconnect.
C7_Witness ==
    /\ listeners >= 2
    /\ \E i, j \in 1..Len(emitted) :
          /\ i < j
          /\ ~emitted[i].delivered /\ emitted[j].delivered
          /\ emitted[i].sessionId # emitted[j].sessionId

\* C8: a step of the backend connection (accepted, lost, read loop ended)
\* leaves every binding and every owner as it was.
C8_BackendDropKeepsTopics ==
    [][(bstate' # bstate \/ server1_connection' # server1_connection)
       => topics' = topics /\ topic_owners' = topic_owners]_vars

\* C8 witness: a backend connection ended, the next one is open, and a topic
\* bound before is still bound and owned.
C8_Witness ==
    /\ \E b \in BackendConns : bstate[b] = "gone"
    /\ server1_connection # NoConn
    /\ bstate[server1_connection] = "open"
    /\ \E t \in Topics : topics[t] # NoSession /\ topic_owners[t] # NoOwner

\* C9: after the loss (with an error) of a connection that had succeeded, the
\* adapter keeps trying to reconnect: its listener is still to notice the
\* loss, sleeping, or inside connect_websocket; it never gives up.
C9_ReconnectNeverGivesUp ==
    websocket = "closed_err" => listener \in {"listening", "sleep", "reconnect"}

\* C10: the connect_websocket call of start() makes at most max_retries
\* attempts, has slept retry_delay before each attempt but the first, makes no
\* attempt after a success (which creates exactly one listener), and raises
\* only when the last attempt has failed.
C10_StartupRetries ==
    connecting.caller = "start"
    => /\ connecting.attempt < max_retries
       /\ connecting.waited = connecting.attempt * retry_delay
       /\ connecting.pc \in {"connect", "sleep", "raised"} => listeners = 0 /\ websocket = "none"
       /\ connecting.pc = "returned" => listeners = 1 /\ listener # "none"
       /\ connecting.pc = "raised" => connecting.attempt = max_retries - 1

\* C10 witness: start() raised after the last attempt failed.
C10_Witness ==
    /\ connecting.caller = "start"
    /\ connecting.pc = "raised"
    /\ connecting.attempt = max_retries - 1
    /\ connecting.waited = (max_retries - 1) * retry_delay

\* C11: stop_topic naming a topic without binding answers success false,
\* sends no session_destroy envelope (nothing but the response is written),
\* appends no log line and leaves topics and topic_owners unchanged.
C11_StopUnknownTopic ==
    [][(/\ recv'.type = "stop_topic"
        /\ recv'.topicName # Absent
        /\ topics[recv'.topicName] = NoSession)
       => /\ sent' = {Envelope(recv'.conn, "topic_stopped", recv'.topicName, FALSE,
                               Absent, Absent, NoSession)}
          /\ log' = log
          /\ topics' = topics /\ topic_owners' = topic_owners
          /\ ctask'[recv'.conn].pc = "idle"]_vars

\* C11 witness: a stop was refused for a name never created, while a backend
\* connection was open and another topic was bound.
C11_Witness ==
    /\ recv.type = "stop_topic"
    /\ recv.topicName # Absent
    /\ topics[recv.topicName] = NoSession
    /\ log[recv.topicName] = <<>>
    /\ server1_connection # NoConn /\ bstate[server1_connection] = "open"
    /\ \E t \in Topics : topics[t] # NoSession
    /\ \E e \in sent : e.type = "topic_stopped" /\ ~e.success

\* C12: a stop_topic called for a bound topic ends with the topic unbound and
\* without owner and answers success true, whatever became of the
\* session_destroy request (no backend connection, a failed send, a sent one).
C12_StopAlwaysRemoves ==
    [][\A c \in Clients :
          (/\ ctask[c].pc = "stop_log" /\ ctask'[c].pc = "idle"
           /\ ctask[c].bound # NoSession)
          => /\ topics'[ctask[c].msg.topicName] = NoSession
             /\ topic_owners'[ctask[c].msg.topicName] = NoOwner
             /\ \A e \in Responses(sent', c) : e.type = "topic_stopped" /\ e.success
             /\ cstate[c] = "open" => Responses(sent', c) # {}]_vars

C14_ClientCloseDeOwns ==
    [][/\ \A c \in Clients :
             (cstate[c] # "gone" /\ cstate'[c] = "gone") => topics' = topics
       /\ \A c \in Clients, t \in Topics :
             cstate'[c] = "gone" => topic_owners'[t] # c
       /\ \A e \in sent' : e.type = "output" => cstate[e.to] = "open"]_vars

\* C15: when destroy_session has returned true for a session id (the id left
\* the session table), no topic of the registry is bound to that id.
C15_DestroyUnbindsTopic ==
    [][\A s \in AdapterSessionIds :
          (s \in sessions /\ s \notin sessions')
          => \A t \in Topics : topics'[t] # s]_vars

\* C16: no session id is bound to two topic names: topics is injective on the
\* bound names.
C16_TopicsInjective ==
    \A t, u \in Topics :
        (t # u /\ topics[t] # NoSession) => topics[t] # topics[u]

\* C16 witness: two topics are bound at once, one of them while its creator
\* is still suspended in log_to_topic.
C16_Witness ==
    /\ \A t \in Topics : topics[t] # NoSession
    /\ \E c \in Clients : ctask[c].pc = "create_log"

\* C17: destroy_session of an id that is not in the session table returns
\* false (DELETE answers 404), runs no tmux command and changes nothing of
\* the adapter's state.
C17_DestroyIdempotent ==
    [][(call'.op = "destroy_session" /\ call'.sid \notin sessions)
       => /\ call'.result = "false"
          /\ call'.status = 404
          /\ call'.tmux = <<>>
          /\ UNCHANGED avars]_vars

\* C17 witness: the second destroy of a session that had been created and
\* destroyed has just returned false.
C17_Witness ==
    /\ call.op = "destroy_session"
    /\ call.result = "false" /\ call.status = 404
    /\ call.sid \notin sessions
    /\ monitor[call.sid] # "none"

\* C18: a create_session whose window was created and whose probe command
\* (send-keys) failed still returns its session id (POST answers 201), and
\* that id is new in the session table with a monitor task created for it.
C18_CreateSurvivesProbeFailure ==
    [][(/\ call'.op = "create_session"
        /\ call'.tmux = <<Tmux("new-window", TRUE), Tmux("send-keys", FALSE)>>)
       => /\ call'.result = "returned"
          /\ call'.status = 201
          /\ call'.sid \notin sessions
          /\ sessions' = sessions \cup {call'.sid}
          /\ monitor[call'.sid] = "none"
          /\ monitor'[call'.sid] = "start"]_vars

\* C18 witness: a session whose probe failed is registered, its monitor task
\* created, next to a session created before.
C18_Witness ==
    /\ call.op = "create_session"
    /\ call.tmux = <<Tmux("new-window", TRUE), Tmux("send-keys", FALSE)>>
    /\ call.sid \in sessions
    /\ monitor[call.sid] = "start"
    /\ Cardinality(sessions) = 2

\* C19: a create_session whose window creation failed raises (POST answers
\* 422) and leaves the session table and the monitor tasks as they were.
C19_CreateFailureChangesNothing ==
    [][(call'.op = "create_session" /\ ~call'.tmux[1].ok)
       => /\ call'.result = "raised"
          /\ call'.status = 422
          /\ Len(call'.tmux) = 1
          /\ sessions' = sessions
          /\ monitor' = monitor
          /\ UNCHANGED <<websocket, sequence, connecting, listener, listeners, losses,
                         emitted>>]_vars

\* C19 witness: a create_session has just raised while another session was
\* registered; its id is not in the table and has no monitor.
C19_Witness ==
    /\ call.op = "create_session"
    /\ call.result = "raised" /\ call.status = 422
    /\ call.sid \notin sessions
    /\ monitor[call.sid] = "none"
    /\ sessions # {}

\* C20: the data passed to send_output_to_server2 by either monitor strategy
\* is never empty.
C20_NoEmptyChunk ==
    chunk.passed => chunk.data # <<>>

\* C20 witness: the file monitor read a line break, text and a line break in
\* one go and passed on the first two characters.
C20_Witness ==
    /\ chunk.passed /\ chunk.by = "pipe"
    /\ file = <<"\n", "x", "\n">>
    /\ last_position = 3
    /\ chunk.data = <<"\n", "x">>

\* C21: a message that is not valid JSON, or whose type is not known, read on
\* a client or on the backend connection changes nothing of the registry,
\* the logs or the connections, sends nothing, and leaves its connection open
\* with the handler back in the read loop.
C21_MalformedDropped ==
    [][recv'.type \in {"invalid_json", "unknown_type"}
       => /\ topics' = topics /\ topic_owners' = topic_owners
          /\ log' = log /\ sent' = {}
          /\ cstate' = cstate /\ bstate' = bstate
          /\ client_connections' = client_connections
          /\ server1_connection' = server1_connection
          /\ ctask' = ctask /\ btask' = btask
          /\ recv'.conn \in Clients
             => cstate'[recv'.conn] = "open" /\ ctask'[recv'.conn].pc = "idle"
          /\ recv'.conn \in BackendConns
             => bstate'[recv'.conn] = "open" /\ btask'[recv'.conn].pc = "idle"]_vars

\* C21 witness: invalid JSON was read on the backend connection while a topic
\* was bound and owned, and a further message can still be read.
C21_Witness ==
    /\ recv.type = "invalid_json" /\ recv.conn \in BackendConns
    /\ \E t \in Topics : topics[t] # NoSession /\ topic_owners[t] # NoOwner
    /\ BackendCanReceive(recv.conn)

C23_FirstPc(type) ==
    CASE type = "create_topic" -> "create_http"
      [] type = "stop_topic" -> "stop_log"
      [] type = "send_command" -> "cmd_log"

\* C23: the response to a request that carries its fields has type
\* topic_created when create_topic returned true and topic_create_failed when
\* it returned false, topic_stopped for stop_topic and command_sent for
\* send_command; its success field is the result of the operation (create: a
\* session id was returned; stop: the binding was there to delete; command: the
\* topic was bound at the call), and topicName and command are those of the
\* request.  The operation runs once per request: a handler reads no message
\* while an operation is in progress, enters the operation of the request it
\* read, and moves only forward in it until it responds.
C23_ResponseShape ==
    [][\A c \in Clients :
          LET atOnce == /\ recv'.conn = c /\ HasRequiredFields(recv')
                        /\ ctask'[c].pc = "idle"
              later == ctask[c].pc # "idle" /\ ctask'[c].pc = "idle"
              m == IF later THEN ctask[c].msg ELSE recv'
              t == m.topicName
              result == /\ later
                        /\ CASE ctask[c].pc = "create_http" -> FALSE
                             [] ctask[c].pc = "create_log" -> ctask[c].sid # NoSession
                             [] ctask[c].pc = "cmd_log" -> ctask[c].bound # NoSession
                             [] ctask[c].pc = "stop_log" -> /\ topics[t] # NoSession
                                                            /\ topics'[t] = NoSession
              type == CASE m.type = "create_topic" ->
                               IF result THEN "topic_created" ELSE "topic_create_failed"
                        [] m.type = "stop_topic" -> "topic_stopped"
                        [] m.type = "send_command" -> "command_sent"
                        [] OTHER -> "none"
          IN /\ (atOnce \/ later)
                => /\ Responses(sent', c)
                        \subseteq {Envelope(c, type, t, result, m.command, Absent, NoSession)}
                   /\ cstate[c] = "open" => Responses(sent', c) # {}
             /\ recv'.conn = c => ctask[c].pc = "idle"
             /\ (recv'.conn = c /\ HasRequiredFields(recv') /\ ctask'[c].pc # "idle")
                => /\ ctask'[c].pc = C23_FirstPc(recv'.type)
                   /\ ctask'[c].msg = ClientMsg(recv'.type, recv'.topicName,
                                                recv'.userId, recv'.command)
             /\ (ctask[c].pc # "idle" /\ ctask'[c] # ctask[c] /\ ~later)
                => /\ ctask[c].pc = "create_http" /\ ctask'[c].pc = "create_log"
                   /\ ctask'[c].msg = ctask[c].msg]_vars

\* C23 witness: a send_command for a bound topic has just been answered with
\* command_sent, success true and the command of the request.
C23_Witness ==
    \E e \in sent :
        /\ e.type = "command_sent" /\ e.success
        /\ e.command \in Commands
        /\ LastLine(e.topicName).kind = "COMMAND"
        /\ LastLine(e.topicName).text = e.command
        /\ topics[e.topicName] # NoSession

\* C24: every step leaves the logs alone or appends one line at the end of
\* one log, so lines stand in the order of their events; the step that ends
\* a successful create_topic appends "session opened - <id>", a successful
\* send_command "COMMAND: <text>", a successful stop_topic the stop line, the
\* output of a bound session "OUTPUT: <chunk>"; an operation that fails
\* appends nothing.
C24_OneLinePerEvent ==
    [][/\ \A c \in Clients :
             LET t == ctask[c].msg.topicName
                 ends == ctask[c].pc # "idle" /\ ctask'[c].pc = "idle"
             IN /\ (ends /\ ctask[c].pc = "create_log")
                   => log' = Append1(t, LogLine("session opened", ctask[c].sid, Absent))
                /\ (ends /\ ctask[c].pc = "cmd_log")
                   => log' = Append1(t, LogLine("COMMAND", NoSession, ctask[c].msg.command))
                /\ (ends /\ ctask[c].pc = "stop_log")
                   => log' = IF topics[t] = NoSession  \* stop_topic returns False
                             THEN log
                             ELSE Append1(t, LogLine("stop", NoSession, Absent))
                /\ (ends /\ ctask[c].pc = "create_http") => log' = log
                /\ (recv'.conn = c /\ ctask'[c].pc = "idle") => log' = log
       /\ \A b \in BackendConns :
             (btask[b].pc = "out_log" /\ btask'[b].pc # "out_log")
             => log' = Append1(btask[b].topic, LogLine("OUTPUT", NoSession, btask[b].data))
       /\ log' # log
          => \/ \E c \in Clients : ctask[c].pc # "idle" /\ ctask'[c].pc = "idle"
             \/ \E b \in BackendConns : btask[b].pc = "out_log" /\ btask'[b].pc # "out_log"]_vars

C26_CommandUnknownSession ==
    [][(call'.op = "send_command_to_session" /\ call'.sid \notin sessions)
       => /\ call'.tmux = <<>>
          /\ command_timestamps' = command_timestamps
          /\ call'.result = "returned"
          /\ UNCHANGED avars]_vars

\* C26 witness: a command for a session that was created and destroyed has
\* just been ignored, while another session has a command timestamp.
C26_Witness ==
    /\ call.op = "send_command_to_session"
    /\ call.sid \notin sessions
    /\ monitor[call.sid] # "none"
    /\ call.tmux = <<>>
    /\ command_timestamps # {}
    /\ call.sid \notin command_timestamps

\* The lines of a text (split at the line breaks; no text, no line).
RECURSIVE C27_Lines(_)
C27_Lines(str) ==
    IF str = <<>> THEN <<>>
    ELSE IF \A i \in 1..Len(str) : str[i] # "\n" THEN <<str>>
    ELSE LET i == CHOOSE k \in 1..Len(str) :
                      str[k] = "\n" /\ \A j \in 1..(k - 1) : str[j] # "\n"
         IN <<SubSeq(str, 1, i - 1)>> \o C27_Lines(SubSeq(str, i + 1, Len(str)))

\* The lines from the k-th on, joined by line breaks.
RECURSIVE C27_Join(_, _)
C27_Join(lines, k) ==
    IF k > Len(lines) THEN <<>>
    ELSE IF k = Len(lines) THEN lines[k]
    ELSE lines[k] \o <<"\n">> \o C27_Join(lines, k + 1)

\* The first line at which the new snapshot leaves the old one.
C27_FirstDivergence(old, new) ==
    LET common == {k \in 0..Len(new) :
                      \A i \in 1..k : i <= Len(old) /\ old[i] = new[i]}
    IN 1 + CHOOSE k \in common : \A j \in common : j <= k

\* The lines of the new snapshot from the first divergence on.
C27_Suffix(old, new) ==
    C27_Join(C27_Lines(new), C27_FirstDivergence(C27_Lines(old), C27_Lines(new)))

\* C27: a turn of the fallback loop that takes a new snapshot passes on only
\* the lines of the snapshot from the first line that differs from the last
\* snapshot, and stores the snapshot.
C27_FallbackEmitsSuffix ==
    [][last_output' # last_output
       => /\ chunk' = [passed |-> TRUE, by |-> "fallback",
                       data |-> C27_Suffix(last_output, RStrip(pane))]
          /\ last_output' = RStrip(pane)]_vars

C29_MinSendInterval ==
    \A i \in 1..(Len(emitted_at) - 1) :
        emitted_at[i + 1] - emitted_at[i] >
            (IF chunk.by = "pipe" THEN min_send_interval ELSE fallback_min_send_interval)

\* C30: the step that reads a session_created or a session_destroyed message
\* of the backend changes neither topics nor topic_owners, appends no log
\* line, sends nothing to a client or to the backend, and starts no work.
C30_NoticesChangeNothing ==
    [][recv'.type \in {"session_created", "session_destroyed"}
       => /\ topics' = topics /\ topic_owners' = topic_owners
          /\ log' = log /\ sent' = {}
          /\ ctask' = ctask /\ btask' = btask
          /\ server1_connection' = server1_connection]_vars

\* C30 witness: session_destroyed was read for a session that is bound to a
\* topic with an owner.
C30_Witness ==
    /\ recv.type = "session_destroyed"
    /\ \E t \in Topics : topics[t] = recv.sessionId /\ topic_owners[t] # NoOwner

\* C31: a monitor task of a session that is no longer in the session table
\* leaves its loop at the next test of the loop condition and ends: a task
\* suspended in the file read finishes that turn and sleeps, a task that
\* sleeps (in either loop) or has not run yet ends, and a task that ended
\* stays ended.
C31_MonitorEndsAfterDestroy ==
    [][\A s \in AdapterSessionIds :
          (s \notin sessions /\ monitor[s] # "none")
          => /\ monitor[s] = "done" => monitor'[s] = "done"
             /\ (monitor[s] = "read" /\ monitor'[s] # "read") => monitor'[s] = "sleep"
             /\ (monitor[s] \in {"start", "sleep", "fb_sleep"} /\ monitor'[s] # monitor[s])
                => monitor'[s] = "done"]_vars

\* C31 witness: the incremental monitor of a destroyed session has ended
\* after it had sent output.
C31_Witness ==
    /\ Watched \notin sessions
    /\ monitor[Watched] = "done"
    /\ chunk.passed /\ chunk.by = "pipe"

\* C31 witness for the fallback loop: its task has ended for a destroyed
\* session after it had sent a snapshot.
C31_WitnessFallback ==
    /\ Watched \notin sessions
    /\ monitor[Watched] = "done"
    /\ chunk.passed /\ chunk.by = "fallback"

\* No handler of the router is suspended in an await.
Quiescent ==
    /\ \A c \in Clients : ctask[c].pc = "idle"
    /\ \A b \in BackendConns : btask[b].pc = "idle"

\* C32: in a quiescent state every session created for a create_topic request
\* is bound to a topic or a session_destroy envelope has been written for it.
C32_NoOrphanedSessions ==
    Quiescent
    => \A n \in 1..(nextSid - 1) :
          \/ \E t \in Topics : topics[t] = SessionIdOfRequest(n)
          \/ SessionIdOfRequest(n) \in destroy_requested

\* While a backend connection is open, the recorded one is open.
C33_OpenRecorded ==
    (\E b \in BackendConns : bstate[b] = "open")
    => server1_connection # NoConn /\ bstate[server1_connection] = "open"

\* A connection whose handler has ended is not the recorded one.
C33_EndedNotRecorded ==
    server1_connection # NoConn => bstate[server1_connection] # "gone"

\* C33: while a backend connection is open, server1_connection is an open
\* backend connection (the end of the handler of an older connection does not
\* clear it); and a connection whose handler has ended, after an error or
\* after a normal close, is not the recorded one.
C33_RecordedConnection == C33_OpenRecorded /\ C33_EndedNotRecorded

\* C34: in the log of a topic no OUTPUT or COMMAND line comes after a stop
\* line without a "session opened" line between the two.
C34_NoLineAfterStop ==
    \A t \in Topics : \A i, j \in 1..Len(log[t]) :
        (i < j /\ log[t][i].kind = "stop" /\ log[t][j].kind \in {"OUTPUT", "COMMAND"})
        => \E k \in (i + 1)..(j - 1) : log[t][k].kind = "session opened"

\* C35: no stdout message is built for a session that destroy_session has
\* removed (a session that was created and is no longer in the table),
\* wherever its monitor task was suspended when it was removed.
C35_NoOutputAfterDestroy ==
    [][Len(emitted') > Len(emitted)
       => LET s == emitted'[Len(emitted')].sessionId
          IN ~(monitor[s] # "none" /\ s \notin sessions)]_vars

\* C36: the step in which the file monitor calls send_output_to_server2 moves
\* the offset to the end of what was read, also when the message did not go
\* out (the connection is lost); the offset never moves back, and a chunk
\* starts past the offset: content passed once is in no later chunk, also
\* after the adapter has reconnected.
C36_OffsetAdvancesUndelivered ==
    [][LET called == monitor[Watched] = "read" /\ emitted' # emitted
       IN /\ last_position' >= last_position
          /\ called => /\ last_position' = Len(file)
                        /\ last_position' > last_position
                        /\ chunk'.data = RStrip(SubSeq(file, last_position + 1, Len(file)))
                        /\ emitted'[Len(emitted')].delivered = (websocket = "open")
                        /\ monitor'[Watched] = "sleep"]_vars

\* C36 witness: a first chunk was passed while the connection was lost and
\* did not go out; after the reconnect the second chunk went out, and it
\* holds only what was written after the first.
C36_Witness ==
    /\ Len(emitted) = 2
    /\ ~emitted[1].delivered /\ emitted[2].delivered
    /\ listeners >= 2
    /\ file = <<"x", "x">>
    /\ chunk.by = "pipe" /\ chunk.data = <<"x">>
    /\ last_position = 2

\* C37: a send_command for a bound topic goes on to log_to_topic whatever
\* became of the command envelope (none is written when no backend connection
\* is recorded or when the recorded one is not open; nothing else is written),
\* and the step that ends it appends the COMMAND line and answers
\* command_sent with success true.
C37_CommandSucceedsUndelivered ==
    [][/\ (/\ recv'.type = "send_command"
            /\ recv'.topicName # Absent /\ recv'.command # Absent
            /\ topics[recv'.topicName] # NoSession)
           => /\ ctask'[recv'.conn].pc = "cmd_log"
              /\ \A e \in sent' :
                    /\ e.type = "command" /\ e.to = server1_connection
                    /\ e.sessionId = topics[recv'.topicName] /\ e.data = recv'.command
              /\ (server1_connection = NoConn \/ bstate[server1_connection] # "open")
                 <=> sent' = {}
       /\ \A c \in Clients :
             (ctask[c].pc = "cmd_log" /\ ctask'[c].pc # "cmd_log")
             => /\ log'[ctask[c].msg.topicName] =
                      Append(log[ctask[c].msg.topicName],
                             LogLine("COMMAND", NoSession, ctask[c].msg.command))
                /\ \A e \in Responses(sent', c) : e.type = "command_sent" /\ e.success
                /\ cstate[c] = "open" => Responses(sent', c) # {}]_vars

\* C37 witness: a command for a bound topic was read while no backend
\* connection was recorded: nothing was written and the handler is in
\* log_to_topic.
C37_Witness ==
    /\ recv.type = "send_command"
    /\ recv.topicName # Absent /\ topics[recv.topicName] # NoSession
    /\ server1_connection = NoConn
    /\ sent = {}
    /\ ctask[recv.conn].pc = "cmd_log"

\* C38: a topic name that has an owner has a session binding.
C38_OwnerHasBinding ==
    \A t \in Topics : topic_owners[t] # NoOwner => topics[t] # NoSession

\* C38 witness: a topic is bound and owned with a stop line in its log (it
\* was created again after a stop, or during one).
C38_Witness ==
    \E t \in Topics :
        /\ topic_owners[t] # NoOwner /\ topics[t] # NoSession
        /\ \E i \in 1..Len(log[t]) : log[t][i].kind = "stop"

\* C39: the step in which a suspended send of output to the owner fails
\* clears the owner of the topic only when the owner is still the connection
\* the send went to (a newer owner is kept), changes no other owner, and the
\* removal does not raise (also when the topic was stopped meanwhile).
C39_OnlyFailedOwnerCleared ==
    [][\A b \in BackendConns :
          LET t == btask[b].topic
          IN (btask[b].pc = "out_send" /\ btask'[b].pc # "out_send")
             => /\ topic_owners'[t] = IF topic_owners[t] = btask[b].owner
                                        THEN NoOwner ELSE topic_owners[t]
                /\ \A u \in Topics \ {t} : topic_owners'[u] = topic_owners[u]
                /\ ~DelOwnerRaises(t)]_vars

\* Two commands of the same client connection for the same topic.
C40_SameFlow(x, y) == x.conn = y.conn /\ x.topicName = y.topicName

\* C40: the commands of one client connection for one topic are on the
\* backend connection in the order in which the router read them from the
\* client, and they reach send-keys in that order: of two such commands the
\* one read first is typed first, and none still unread by the adapter was
\* read from the client before one that has been typed.
C40_CommandsInOrder ==
    /\ \A i, j \in 1..Len(inbox) :
          (i < j /\ C40_SameFlow(inbox[i], inbox[j])) => inbox[i].n < inbox[j].n
    /\ \A i, j \in 1..Len(typed) :
          (i < j /\ C40_SameFlow(typed[i], typed[j])) => typed[i].n < typed[j].n
    /\ \A i \in 1..Len(typed), j \in 1..Len(inbox) :
          C40_SameFlow(typed[i], inbox[j]) => typed[i].n < inbox[j].n

\* C40 witness: two commands that one connection sent for one topic, one
\* right after the other, have both been typed.
C40_Witness ==
    /\ Len(typed) = 2
    /\ C40_SameFlow(typed[1], typed[2])
    /\ typed[2].n = typed[1].n + 1

====
